---- MODULE Spec2Model ----
(***************************************************************************)
(* The cascading categorization pipeline of FSB_v3:                        *)
(*   app/categorization/fuzzy_matcher.py  (FuzzyMatcher)                   *)
(*   app/categorization/ai_categorizer.py (AICategorizer)                  *)
(*   app/pages/main.py                    (FinancialStatementBuilderApp)   *)
(*                                                                         *)
(* Python values are modelled as tagged records, so that values of         *)
(* different Python types can sit in the same field and be compared:       *)
(*   None -> [none |-> TRUE]      a str  -> [str |-> <<tokens>>]           *)
(*   a number -> [n |-> numerator, d |-> denominator] (an exact rational)  *)
(*   True/False -> [bool |-> TRUE/FALSE]    a list -> [list |-> <<..>>]    *)
(* A string is the sequence of its pieces.  Descriptions, short            *)
(* descriptions and dictionary keys are cut into single characters; a      *)
(* category name is cut at its colons and blanks, the runs of other        *)
(* characters between them being one piece each.                           *)
(***************************************************************************)
EXTENDS Integers, Sequences, FiniteSets, TLC

VARIABLES
    \* ---- AICategorizer (ai_categorizer.py) ----
    category_ranges,        \* self.category_ranges: parent -> [min_amount, max_amount]
    batch_size,             \* self.batch_size
    transactions,           \* the argument of process_transactions
    pc,                     \* position inside process_transactions
    batches,                \* the batches of groups still to go and done
    batch_no,               \* how many batches the loop has taken
    categorized_groups,     \* the lookup of results by short description
    processed_transactions, \* what process_transactions returns
    sent,                   \* batches (by number) the model was invoked for
    failed,                 \* batches whose model call or parse failed
    stored_by,              \* short description -> numbers of the batches that stored it
    last_results,           \* what _get_categories returned for the last batch
    \* ---- FuzzyMatcher (fuzzy_matcher.py) ----
    industry_exists,        \* industry_path.exists() when the dictionaries were loaded
    match_cache,            \* self.match_cache
    match_log,              \* the calls of _find_best_match so far, with their results
    threshold,              \* confidence_threshold of the run
    fm_in,                  \* the transaction last given to process_transaction
    fm_out,                 \* what process_transaction returned for it
    fm_status,              \* "idle", "returned" or "raised"
    fm_lookups,             \* dictionaries _find_best_match was called on, last call
    fm_scored,              \* dictionaries whose rows were scored, last call
    processed,              \* process_json_transactions' list of results so far
    \* ---- FinancialStatementBuilderApp (pages/main.py) ----
    api_key,                \* whether AI_API_KEY is set in the environment
    ai_categorizer,         \* self.ai_categorizer: "unset", "none" or "ready"
    all_transactions,       \* the validated rows of the uploaded statements
    run_pc,                 \* position inside process_and_categorize
    transactions_for_ai,    \* the rows collected for the AI stage
    ai_calls,               \* the arguments process_transactions was invoked with
    ai_results,             \* what the AI stage gave: null, "raised" or a list
    excel_df,               \* the categorized output, null until it is built
    \* ---- calls of the pure functions ----
    call,                   \* the arguments of the call
    ret                     \* its result

aiVars == <<category_ranges, batch_size, transactions, pc, batches, batch_no,
            categorized_groups, processed_transactions, sent, failed,
            stored_by, last_results>>
fmVars == <<industry_exists, match_cache, match_log, threshold, fm_in, fm_out,
            fm_status, fm_lookups,
            fm_scored, processed>>
mainVars == <<api_key, ai_categorizer, all_transactions, run_pc,
              transactions_for_ai, ai_calls, ai_results, excel_df>>
fnVars == <<call, ret>>
vars == <<aiVars, fmVars, mainVars, fnVars>>

-----------------------------------------------------------------------------
(* Python values *)

PyNone == [none |-> TRUE]
Str(s) == [str |-> s]
Rat(n, d) == [n |-> n, d |-> d]
PyInt(n) == Rat(n, 1)
PyBool(b) == [bool |-> b]
PyList(s) == [list |-> s]

\* The result slot of a call: empty, or holding the value returned.
NotDone == [done |-> FALSE]
Done(value) == [done |-> TRUE, value |-> value]

IsStr(v) == DOMAIN v = {"str"}
IsRat(v) == DOMAIN v = {"n", "d"}
IsBool(v) == DOMAIN v = {"bool"}
IsList(v) == DOMAIN v = {"list"}

Abs(x) == IF x < 0 THEN 0 - x ELSE x

RECURSIVE Gcd(_, _)
Gcd(a, b) == IF b = 0 THEN a ELSE Gcd(b, a % b)

\* The rational n/d in lowest terms with a positive denominator (d # 0).
Frac(n, d) ==
    LET g == Gcd(Abs(n), Abs(d))
        s == IF d < 0 THEN 0 - 1 ELSE 1
    IN  Rat((s * n) \div g, (s * d) \div g)

\* True is 1 and False is 0 wherever Python takes them as numbers.
AsRat(v) == IF IsBool(v) THEN PyInt(IF v.bool THEN 1 ELSE 0) ELSE v

RatLeq(a, b) == a.n * b.d <= b.n * a.d

RatLess(a, b) == a.n * b.d < b.n * a.d

\* dict assignment d[k] = v
Put(d, k, v) == [x \in DOMAIN d \cup {k} |-> IF x = k THEN v ELSE d[x]]

\* {**d, **new}, and d.copy() followed by assignments of new's keys
Update(d, new) ==
    [k \in DOMAIN d \cup DOMAIN new |-> IF k \in DOMAIN new THEN new[k] ELSE d[k]]

\* d.get(k): None when the key is absent
Get(d, k) == IF k \in DOMAIN d THEN d[k] ELSE PyNone

-----------------------------------------------------------------------------
(* Strings used by the model *)

Revenue == <<"Revenue">>
RevenueServices == <<"Revenue", ":", " ", "Services">>
RevenueSpaced == <<" ", "Revenue", " ", ":", "Sales">>
ExpensesRent == <<"Expenses", ":", " ", "Rent">>
CogsFoodBulk == <<"COGS", ":", " ", "Food", ":", " ", "Bulk">>
Transfers == <<"Transfers">>
Bogus == <<"Bogus", ":", " ", "Thing">>
EmptyStr == <<>>
ColonFirst == <<":", " ", "Orphan">>
NA == <<"N/A">>

\* Characters
DigitChars ==
    <<"0", "1", "2", "3", "4", "5", "6", "7", "8", "9">>
LowerLetters ==
    <<"a", "b", "c", "d", "e", "f", "g", "h", "i", "j", "k", "l", "m", "n",
      "o", "p", "q", "r", "s", "t", "u", "v", "w", "x", "y", "z">>
UpperLetters ==
    <<"A", "B", "C", "D", "E", "F", "G", "H", "I", "J", "K", "L", "M", "N",
      "O", "P", "Q", "R", "S", "T", "U", "V", "W", "X", "Y", "Z">>

Range(seq) == {seq[i] : i \in DOMAIN seq}

Digits == Range(DigitChars)
Whitespace == {" ", "\t", "\n"}

-----------------------------------------------------------------------------
(* Range validator: ai_categorizer.py 341-378 *)

IsBlank(piece) == piece \in Whitespace

\* The positions of s that hold no whitespace.
Solid(s) == {i \in DOMAIN s : ~IsBlank(s[i])}

First(positions) == CHOOSE i \in positions : \A j \in positions : i <= j
Last(positions) == CHOOSE i \in positions : \A j \in positions : j <= i

\* str.lstrip() and str.rstrip()
LStrip(s) ==
    IF s = <<>> THEN <<>>
    ELSE LET solid == Solid(s)
         IN  IF solid = {} THEN <<>> ELSE SubSeq(s, First(solid), Len(s))

RStrip(s) ==
    IF s = <<>> THEN <<>>
    ELSE LET solid == Solid(s)
         IN  IF solid = {} THEN <<>> ELSE SubSeq(s, 1, Last(solid))

\* str.strip()
Strip(s) ==
    IF s = <<>> THEN <<>>
    ELSE LET solid == Solid(s)
         IN  IF solid = {} THEN <<>> ELSE SubSeq(s, First(solid), Last(solid))

\* str.split(':')[0]: what stands before the first colon, all of it without one.
RECURSIVE BeforeFirstColon(_)
BeforeFirstColon(s) ==
    IF s = <<>> \/ Head(s) = ":" THEN <<>>
    ELSE <<Head(s)>> \o BeforeFirstColon(Tail(s))

\* category.split(':')[0].strip() if category else None
_get_parent_category(category) ==
    IF IsStr(category) /\ category.str # <<>>
    THEN Str(Strip(BeforeFirstColon(category.str)))
    ELSE PyNone

\* ((amount - bound) / bound) * 100; a float division by zero raises
\* ZeroDivisionError, which the caller's except turns into 0.
PercentFrom(amount, bound) ==
    IF bound = 0 THEN PyInt(0) ELSE Frac((amount - bound) * 100, bound)

_calculate_percent_outside_range(ranges, amount, category) ==
    LET parent_category == _get_parent_category(category)
    IN  IF parent_category = PyNone \/ parent_category.str = <<>>
           \/ parent_category.str \notin DOMAIN ranges
        THEN PyInt(0)
        ELSE LET r == ranges[parent_category.str]
             IN  IF amount < r.min_amount THEN PercentFrom(amount, r.min_amount)
                 ELSE IF amount > r.max_amount THEN PercentFrom(amount, r.max_amount)
                 ELSE PyInt(0)

-----------------------------------------------------------------------------
(* Dictionaries: the rows of <industry>_categories.csv and                 *)
(* general_categories.csv, short_description lowercased and trimmed at     *)
(* load time (fuzzy_matcher.py 53-61).                                     *)

SyscoFoods ==
    <<"s", "y", "s", "c", "o", " ", "f", "o", "o", "d", "s">>
Starbucks ==
    <<"s", "t", "a", "r", "b", "u", "c", "k", "s">>
AcmeRent ==
    <<"a", "c", "m", "e", " ", "r", "e", "n", "t">>
RentAcme ==
    <<"r", "e", "n", "t", " ", "a", "c", "m", "e">>
BankTransfer ==
    <<"b", "a", "n", "k", " ", "t", "r", "a", "n", "s", "f", "e", "r">>

Row(sd, category) == [short_description |-> sd, category |-> category]

industry_dict == << Row(SyscoFoods, CogsFoodBulk), Row(Starbucks, RevenueServices) >>

general_dict ==
    << Row(AcmeRent, ExpensesRent), Row(BankTransfer, Transfers),
       Row(RentAcme, RevenueServices) >>

\* self.dictionaries, as _load_dictionaries returns them: without an industry
\* file the industry dictionary is a frame with the two columns and no row.
dictionaries ==
    [industry |-> IF industry_exists THEN industry_dict ELSE <<>>,
     general |-> general_dict]

Column(dict) == {dict[i].category : i \in DOMAIN dict}

\* _load_valid_categories: the union of the two category columns.
valid_categories == Column(industry_dict) \cup Column(general_dict)

-----------------------------------------------------------------------------
(* Description normalizer: fuzzy_matcher.py 63-119 *)

TruncateLen == 20

\* str.lower()
Lower(c) ==
    IF \E i \in DOMAIN UpperLetters : UpperLetters[i] = c
    THEN LowerLetters[CHOOSE i \in DOMAIN UpperLetters : UpperLetters[i] = c]
    ELSE c

ToLower(s) == [i \in DOMAIN s |-> Lower(s[i])]

\* \w of a regular expression
WordChars == Digits \cup Range(LowerLetters) \cup Range(UpperLetters) \cup {"_"}

\* re.split(pattern, s)[0]: what stands before the leftmost match, all of s
\* without one; `matches` holds the positions at which the pattern matches.
BeforeFirstMatch(s, matches) ==
    IF s = <<>> \/ matches = {} THEN s
    ELSE SubSeq(s, 1, First(matches) - 1)

StartsWithAt(s, i, w) ==
    i + Len(w) - 1 <= Len(s) /\ SubSeq(s, i, i + Len(w) - 1) = w

DomainSuffixes ==
    { <<"c", "o", "m">>, <<"n", "e", "t">>, <<"o", "r", "g">>, <<"e", "d", "u">>,
      <<"g", "o", "v">>, <<"i", "o">>, <<"c", "o">>, <<"u", "s">>, <<"u", "k">>,
      <<"c", "a">> }

\* \.(?:com|net|org|edu|gov|io|co|us|uk|ca)[^\s]*
DomainAt(s, i) ==
    s[i] = "." /\ \E w \in DomainSuffixes : StartsWithAt(s, i + 1, w)

\* re.split(domain_pattern, desc)[0]
BeforeDomain(s) == BeforeFirstMatch(s, {i \in 1..Len(s) : DomainAt(s, i)})

DigitAt(s, i) == i \in 1..Len(s) /\ s[i] \in Digits

DigitsAt(s, i, n) == \A k \in i..(i + n - 1) : DigitAt(s, k)

SepAt(s, i) == i \in 1..Len(s) /\ s[i] \in {"/", "-"}

\* \b in front of a digit: the start of the string or a non-word character
BoundaryBefore(s, i) == i = 1 \/ s[i - 1] \notin WordChars

\* \b\d{1,2}[/-]\d{1,2}
DayMonthAt(s, i) ==
    /\ BoundaryBefore(s, i)
    /\ \E a \in {1, 2} :
          DigitsAt(s, i, a) /\ SepAt(s, i + a) /\ DigitAt(s, i + a + 1)

\* \b\d{1,2}[/-]\d{1,2}[/-]\d{2,4}
FullDateAt(s, i) ==
    /\ BoundaryBefore(s, i)
    /\ \E a \in {1, 2}, b \in {1, 2} :
          /\ DigitsAt(s, i, a) /\ SepAt(s, i + a)
          /\ DigitsAt(s, i + a + 1, b) /\ SepAt(s, i + a + b + 1)
          /\ DigitsAt(s, i + a + b + 2, 2)

\* \b\d{1,2}:\d{2}(?::\d{2})?(?:\s*[AaPp][Mm])?
TimeAt(s, i) ==
    /\ BoundaryBefore(s, i)
    /\ \E a \in {1, 2} :
          /\ DigitsAt(s, i, a)
          /\ i + a <= Len(s) /\ s[i + a] = ":"
          /\ DigitsAt(s, i + a + 1, 2)

\* re.split(pattern, desc)[0].strip() for each of the three date patterns
BeforeDayMonth(s) == Strip(BeforeFirstMatch(s, {i \in 1..Len(s) : DayMonthAt(s, i)}))
BeforeFullDate(s) == Strip(BeforeFirstMatch(s, {i \in 1..Len(s) : FullDateAt(s, i)}))
BeforeTime(s) == Strip(BeforeFirstMatch(s, {i \in 1..Len(s) : TimeAt(s, i)}))

\* The value a variable holds after the statements that assigned `values`
\* to it, one after the other.
LastOf(values) == values[Len(values)]

\* The loop over date_patterns, lines 89-90.
RemoveDates(s) ==
    LET s1 == BeforeDayMonth(s)
        s2 == BeforeFullDate(s1)
        s3 == BeforeTime(s2)
    IN  LastOf(<<s1, s2, s3>>)

\* The length of the run of digits s starts with.
LeadingDigits(s) ==
    Cardinality({i \in DOMAIN s : \A k \in 1..i : s[k] \in Digits})

\* re.sub(r'^\d+\s+', '', s)
RemoveLeadingNumber(s) ==
    IF s = <<>> THEN s
    ELSE LET k == LeadingDigits(s)
         IN  IF k >= 1 /\ k < Len(s) /\ s[k + 1] \in Whitespace
             THEN LStrip(SubSeq(s, k + 1, Len(s)))
             ELSE s

\* Where a run of non-whitespace characters starts, and where the run
\* that starts at i ends.
TokenStarts(s) ==
    {i \in DOMAIN s : s[i] \notin Whitespace /\ (i = 1 \/ s[i - 1] \in Whitespace)}
TokenEnd(s, i) ==
    CHOOSE j \in i..Len(s) :
        /\ \A k \in i..j : s[k] \notin Whitespace
        /\ j = Len(s) \/ s[j + 1] \in Whitespace

\* str.split(): the runs of non-whitespace characters, in order
Split(s) ==
    IF s = <<>> THEN <<>>
    ELSE LET starts == TokenStarts(s)
         IN  [k \in 1..Cardinality(starts) |->
                 LET i == CHOOSE x \in starts :
                              Cardinality({y \in starts : y < x}) = k - 1
                 IN  SubSeq(s, i, TokenEnd(s, i))]

\* ' '.join(parts)
RECURSIVE Join(_)
Join(parts) ==
    IF parts = <<>> THEN <<>>
    ELSE IF Len(parts) = 1 THEN parts[1]
    ELSE parts[1] \o <<" ">> \o Join(Tail(parts))

\* re.search(r'\d{4,}', part)
HasLongNumber(part) == \E i \in 1..Len(part) : DigitsAt(part, i, 4)

\* The loop of lines 99-104: the parts before the first one with a long number.
RECURSIVE ProcessedParts(_)
ProcessedParts(parts) ==
    IF parts = <<>> \/ HasLongNumber(Head(parts)) THEN <<>>
    ELSE <<Head(parts)>> \o ProcessedParts(Tail(parts))

\* [^a-z0-9\s&]
SpecialAt(s, i) ==
    s[i] \notin Range(LowerLetters) \cup Digits \cup Whitespace \cup {"&"}

\* re.split(r'[^a-z0-9\s&]', desc)[0]
BeforeSpecial(s) == BeforeFirstMatch(s, {i \in 1..Len(s) : SpecialAt(s, i)})

\* \s+\d+\s*$
TrailingNumberAt(s, i) ==
    \E j \in i..Len(s), k \in i..Len(s) :
        /\ j < k
        /\ \A x \in i..j : s[x] \in Whitespace
        /\ \A x \in (j + 1)..k : s[x] \in Digits
        /\ \A x \in (k + 1)..Len(s) : s[x] \in Whitespace

\* re.sub(r'\s+\d+\s*$', '', s): the one match reaches the end of the string
\* No removal at all.
KeepTrailingNumber(s) == s

RemoveTrailingNumber(s) == BeforeFirstMatch(s, {i \in 1..Len(s) : TrailingNumberAt(s, i)})

\* No cut at all.
Untruncated(s) == s

\* s[:20]
Truncate(s) == SubSeq(s, 1, IF Len(s) < TruncateLen THEN Len(s) ELSE TruncateLen)

_create_short_description(description) ==
    LET lowered == Strip(ToLower(description))
        no_domain == BeforeDomain(lowered)
        no_dates == RemoveDates(no_domain)
        no_prefix == RemoveLeadingNumber(no_dates)
        parts == Split(no_prefix)
        joined == Join(ProcessedParts(parts))
        no_special == BeforeSpecial(joined)
        no_suffix == RemoveTrailingNumber(no_special)
        spaced == Join(Split(no_suffix))
        short == Strip(Truncate(spaced))
    IN  LastOf(<<lowered, no_domain, no_dates, no_prefix, parts, joined,
                 no_special, no_suffix, spaced, short>>)

-----------------------------------------------------------------------------
(* Scoring: fuzz.token_sort_ratio of thefuzz, called at fuzzy_matcher.py   *)
(* 184-187.  Both strings are cleaned (every character that is no letter   *)
(* or digit becomes a blank, lowercase, trimmed), their tokens are sorted  *)
(* and joined by blanks, and the score is 200 * LCS / (total length)       *)
(* rounded to an integer, 0 when either string is empty.                   *)

Alphanumeric == DigitChars \o LowerLetters

CharRank(c) == CHOOSE i \in DOMAIN Alphanumeric : Alphanumeric[i] = c

FullProcess(s) ==
    Strip(ToLower([i \in DOMAIN s |-> IF s[i] \in WordChars \ {"_"} THEN s[i] ELSE " "]))

\* a <= b in the order of Python strings: a is a prefix of b, or the first
\* character in which they differ is the smaller one in a
TokenLeq(a, b) ==
    LET differ == {i \in DOMAIN a \cap DOMAIN b : a[i] # b[i]}
    IN  IF differ = {} THEN Len(a) <= Len(b)
        ELSE LET i == CHOOSE x \in differ : \A y \in differ : x <= y
             IN  CharRank(a[i]) < CharRank(b[i])

RECURSIVE InsertToken(_, _)
InsertToken(sorted, token) ==
    IF sorted = <<>> THEN <<token>>
    ELSE IF TokenLeq(token, Head(sorted)) THEN <<token>> \o sorted
    ELSE <<Head(sorted)>> \o InsertToken(Tail(sorted), token)

RECURSIVE SortTokens(_)
SortTokens(tokens) ==
    IF tokens = <<>> THEN <<>>
    ELSE InsertToken(SortTokens(Tail(tokens)), Head(tokens))

Max(a, b) == IF a >= b THEN a ELSE b

\* One row of the longest-common-subsequence table: entry j + 1 is the
\* length for the prefix of a ending in ch and the first j characters of b,
\* the best of leaving ch out (prev[j + 1]) and of pairing it with an equal
\* character b[k], k <= j (prev[k] + 1).
LcsRow(prev, ch, b) ==
    LET lengths(j) == {prev[j + 1]} \cup {prev[k] + 1 : k \in {x \in 1..j : b[x] = ch}}
    IN  SubSeq([i \in 1..(Len(b) + 1) |-> Last(lengths(i - 1))], 1, Len(b) + 1)

RECURSIVE LcsRows(_, _, _)
LcsRows(a, b, prev) ==
    IF a = <<>> \/ Len(prev) = 0 THEN prev
    ELSE LcsRows(Tail(a), b, LcsRow(prev, Head(a), b))

Lcs(a, b) == LcsRows(a, b, [j \in 1..(Len(b) + 1) |-> 0])[Len(b) + 1]

\* int(round(num / den)): Python rounds a half to the even neighbour
RoundHalfEven(num, den) ==
    LET q == num \div den
        r == num % den
    IN  IF 2 * r < den THEN q
        ELSE IF 2 * r > den THEN q + 1
        ELSE IF q % 2 = 0 THEN q ELSE q + 1

\* The cleaned string with its tokens in order
ProcessAndSort(s) == Join(SortTokens(Split(FullProcess(s))))

\* fuzz.ratio of two cleaned strings
Ratio(a, b) ==
    IF Len(a) = 0 \/ Len(b) = 0 THEN 0
    ELSE RoundHalfEven(200 * Lcs(a, b), Len(a) + Len(b))

token_sort_ratio(s1, s2) == Ratio(ProcessAndSort(s1), ProcessAndSort(s2))

-----------------------------------------------------------------------------
(* FuzzyMatcher._find_best_match: fuzzy_matcher.py 159-203 *)

\* f"{description}:{id(dictionary_df)}": the two dictionaries are two objects
\* A key that leaves the description out.
CacheKeyByDictionary(description, dict_name) == dict_name

CacheKey(description, dict_name) == <<description, dict_name>>

\* The loop with "score >= best_score": the last of the best rows wins.
RECURSIVE LastBestLoop(_, _, _)
LastBestLoop(rows, description, best) ==
    IF rows = <<>> THEN best
    ELSE LET score == token_sort_ratio(description, Head(rows).short_description)
         IN  LastBestLoop(Tail(rows), description,
                 IF RatLeq(best.confidence, Frac(score, 100))
                 THEN [category |-> Str(Head(rows).category),
                       confidence |-> Frac(score, 100)]
                 ELSE best)

\* The loop of lines 182-191 over the rows, in row order; a row replaces the
\* best one only with a strictly higher score.
RECURSIVE BestMatchLoop(_, _, _)
BestMatchLoop(rows, description, best) ==
    IF rows = <<>> THEN best
    ELSE LET score == token_sort_ratio(description, Head(rows).short_description)
         IN  BestMatchLoop(Tail(rows), description,
                 IF RatLess(best.confidence, Frac(score, 100))
                 THEN [category |-> Str(Head(rows).category),
                       confidence |-> Frac(score, 100)]
                 ELSE best)

\* A lookup that scores the rows at every call and stores what it finds.
FindWithoutCache(cache, description, dict_name) ==
    LET result == BestMatchLoop(dictionaries[dict_name], description,
                      [category |-> PyNone, confidence |-> PyInt(0)])
    IN  [match |-> result,
         cache |-> Put(cache, CacheKey(description, dict_name), result),
         scored |-> TRUE]

\* Returns the match, the cache afterwards, and whether rows were scored.
_find_best_match(cache, description, dict_name) ==
    LET cache_key == CacheKey(description, dict_name)
    IN  IF cache_key \in DOMAIN cache
        THEN [match |-> cache[cache_key], cache |-> cache, scored |-> FALSE]
        ELSE LET result == BestMatchLoop(dictionaries[dict_name], description,
                               [category |-> PyNone, confidence |-> PyInt(0)])
             IN  [match |-> result, cache |-> Put(cache, cache_key, result),
                  scored |-> TRUE]

-----------------------------------------------------------------------------
(* FuzzyMatcher.process_transaction: fuzzy_matcher.py 205-257 *)

\* category if category else "N/A"
OrNA(category) ==
    IF category = PyNone \/ category = Str(<<>>) THEN Str(NA) ELSE category

\* confidence < confidence_threshold, lines 238 and 250
BelowThresholdLoose(confidence, confidence_threshold) ==
    RatLeq(confidence, confidence_threshold)
BelowThreshold(confidence, confidence_threshold) ==
    RatLess(confidence, confidence_threshold)

\* The result as built at lines 222-235, before the general dictionary.
IndustryResultEager(transaction, short_desc, industry) ==
    Update(transaction,
        ("short-description" :> Str(short_desc)) @@
        ("industry-dictionary-category" :> OrNA(industry.category)) @@
        ("industry-dictionary-category-confidence-level" :> industry.confidence) @@
        ("general-dictionary-category" :> Str(NA)) @@
        ("general-dictionary-category-confidence-level" :> PyInt(0)) @@
        ("llm-category" :> Str(NA)))
IndustryResult(transaction, short_desc, industry) ==
    Update(transaction,
        ("short-description" :> Str(short_desc)) @@
        ("industry-dictionary-category" :> OrNA(industry.category)) @@
        ("industry-dictionary-category-confidence-level" :> industry.confidence) @@
        ("general-dictionary-category" :> Str(NA)) @@
        ("general-dictionary-category-confidence-level" :> PyNone) @@
        ("llm-category" :> Str(NA)))

\* result.update(...) of lines 244-247, and line 251
GeneralResult(result, general, confidence_threshold) ==
    Update(result,
        ("general-dictionary-category" :> OrNA(general.category)) @@
        ("general-dictionary-category-confidence-level" :> general.confidence) @@
        ("llm-category" :>
            IF BelowThreshold(general.confidence, confidence_threshold)
            THEN PyNone ELSE result["llm-category"]))

\* The two confidence fields of a processed transaction
IndustryConfidenceOf(result) == result["industry-dictionary-category-confidence-level"]
GeneralConfidenceOf(result) == result["general-dictionary-category-confidence-level"]

\* The except of lines 255-257: the error is logged, the transaction returned.
OnExceptionReraise(transaction) == [status |-> "raised", value |-> PyNone]
OnException(transaction) == [status |-> "caught", value |-> transaction]

\* Returns how the call ended, its value, the cache afterwards, the
\* dictionaries _find_best_match was called on and those it scored.
process_transaction(cache, transaction, confidence_threshold) ==
    IF "description" \notin DOMAIN transaction
    THEN \* transaction['description'] raises KeyError
         OnException(transaction) @@
         [cache |-> cache, lookups |-> {}, scored |-> {}]
    ELSE LET short_desc == _create_short_description(transaction.description.str)
             industry == _find_best_match(cache, short_desc, "industry")
             result == IndustryResult(transaction, short_desc, industry.match)
         IN  IF BelowThreshold(industry.match.confidence, confidence_threshold)
             THEN LET general == _find_best_match(industry.cache, short_desc, "general")
                  IN  [status |-> "ok",
                       value |-> GeneralResult(result, general.match,
                                               confidence_threshold),
                       cache |-> general.cache,
                       lookups |-> {"industry", "general"},
                       scored |-> {d \in {"industry"} : industry.scored} \cup
                                  {d \in {"general"} : general.scored}]
             ELSE [status |-> "ok", value |-> result, cache |-> industry.cache,
                   lookups |-> {"industry"},
                   scored |-> {d \in {"industry"} : industry.scored}]

-----------------------------------------------------------------------------
(* Response validation: ai_categorizer.py 129-201 *)

RequiredKeys == {"short_description", "llm_category", "llm_confidence"}

\* isinstance(x, (int, float)): bool is a subclass of int.
IsIntOrFloat(v) == IsRat(v) \/ IsBool(v)

\* The same checks without the one against the vocabulary.
ValidateShapeOnly(group) ==
    /\ RequiredKeys \subseteq DOMAIN group
    /\ IsStr(group.llm_category)
    /\ IsIntOrFloat(group.llm_confidence)
    /\ RatLeq(PyInt(0), AsRat(group.llm_confidence))
    /\ RatLeq(AsRat(group.llm_confidence), PyInt(1))
_validate_group_result(group) ==
    /\ RequiredKeys \subseteq DOMAIN group
    \* an unhashable llm_category raises TypeError inside the try: False
    /\ IsStr(group.llm_category) /\ group.llm_category.str \in valid_categories
    /\ IsIntOrFloat(group.llm_confidence)
    /\ RatLeq(PyInt(0), AsRat(group.llm_confidence))
    /\ RatLeq(AsRat(group.llm_confidence), PyInt(1))

\* A loop that ends at the first element that fails.
RECURSIVE ValidatedUntilFailure(_, _)
ValidatedUntilFailure(categorized, validated_groups) ==
    IF categorized = <<>> \/ ~_validate_group_result(Head(categorized))
    THEN validated_groups
    ELSE ValidatedUntilFailure(Tail(categorized),
                               Append(validated_groups, Head(categorized)))

\* The loop of lines 158-163 over the parsed array.
RECURSIVE ValidatedGroups(_, _)
ValidatedGroups(categorized, validated_groups) ==
    IF categorized = <<>> THEN validated_groups
    ELSE ValidatedGroups(Tail(categorized),
            IF _validate_group_result(Head(categorized))
            THEN Append(validated_groups, Head(categorized))
            ELSE validated_groups)

\* _create_prompt reads self.category_ranges['Revenue'] (line 113): KeyError
\* when that parent has no range; it is raised inside _get_categories' try.
PromptRaises(ranges) == Revenue \notin DOMAIN ranges

\* response.kind: "api_error" (messages.create raised), "invalid_json"
\* (json.loads raised) or "array" (response.items is the parsed array).
_get_categories(ranges, response) ==
    IF PromptRaises(ranges) THEN <<>>
    ELSE IF response.kind # "array" THEN <<>>
    ELSE ValidatedGroups(response.items, <<>>)

-----------------------------------------------------------------------------
(* Grouping and batching: ai_categorizer.py 250-339 *)

IsoDate(y, m, d) == [iso |-> <<y, m, d>>]

IsLeap(y) == (y % 4 = 0 /\ y % 100 # 0) \/ y % 400 = 0

DaysInMonth(y, m) ==
    IF m = 2 THEN (IF IsLeap(y) THEN 29 ELSE 28)
    ELSE IF m \in {4, 6, 9, 11} THEN 30 ELSE 31

RECURSIVE DaysBeforeMonth(_, _)
DaysBeforeMonth(y, m) ==
    IF m <= 1 THEN 0 ELSE DaysBeforeMonth(y, m - 1) + DaysInMonth(y, m - 1)

LeapsBefore(y) == ((y - 1) \div 4) - ((y - 1) \div 100) + ((y - 1) \div 400)

\* datetime.strptime(s, '%Y-%m-%d') as a day count (the proleptic ordinal).
Ordinal(date) ==
    LET y == date.iso[1]
        m == date.iso[2]
        d == date.iso[3]
    IN  365 * (y - 1) + LeapsBefore(y) + DaysBeforeMonth(y, m) + d

\* Order of two zero-padded 'YYYY-MM-DD' strings.
DateLeq(a, b) ==
    \/ a.iso[1] < b.iso[1]
    \/ a.iso[1] = b.iso[1] /\ a.iso[2] < b.iso[2]
    \/ a.iso[1] = b.iso[1] /\ a.iso[2] = b.iso[2] /\ a.iso[3] <= b.iso[3]

\* The dates as they arrived.
Unsorted(dates) == dates
RECURSIVE InsertDate(_, _)
InsertDate(sorted, date) ==
    IF sorted = <<>> THEN <<date>>
    ELSE IF DateLeq(Head(sorted), date)
         THEN <<Head(sorted)>> \o InsertDate(Tail(sorted), date)
         ELSE <<date>> \o sorted

\* list.sort()
RECURSIVE SortDates(_)
SortDates(dates) ==
    IF dates = <<>> THEN <<>>
    ELSE InsertDate(SortDates(SubSeq(dates, 1, Len(dates) - 1)), dates[Len(dates)])

Frequency(dates) ==
    IF Len(dates) > 1
    THEN LET date_range == Ordinal(dates[Len(dates)]) - Ordinal(dates[1])
         IN  Str(<<ToString(Len(dates)), " times in ", ToString(date_range + 1), " days">>)
    ELSE Str(<<"1 time">>)

NewGroup(short_desc) ==
    [short_description |-> short_desc, amounts |-> <<>>, dates |-> <<>>,
     transaction_ids |-> <<>>, llm_category |-> PyNone, llm_confidence |-> PyNone]

\* A lookup that never finds the group.
NeverKnown(groups, short_desc) == 0
IndexOf(groups, short_desc) ==
    IF \E i \in DOMAIN groups : groups[i].short_description = short_desc
    THEN CHOOSE i \in DOMAIN groups : groups[i].short_description = short_desc
    ELSE 0

\* The first loop (264-282): a dict keeps its keys in insertion order.
RECURSIVE CollectGroups(_, _)
CollectGroups(trans, groups) ==
    IF trans = <<>> THEN groups
    ELSE LET t == Head(trans)
             short_desc == t["short-description"]
             known == IndexOf(groups, short_desc)
             gs == IF known = 0 THEN Append(groups, NewGroup(short_desc)) ELSE groups
             i == IF known = 0 THEN Len(gs) ELSE known
             g == [gs[i] EXCEPT !.amounts = Append(@, t.amount),
                                !.dates = Append(@, t.date),
                                !.transaction_ids = Append(@, Get(t, "id"))]
         IN  CollectGroups(Tail(trans), [gs EXCEPT ![i] = g])

\* The second loop without the sort of line 288.
WithFrequencyAsArrived(group) ==
    [k \in DOMAIN group \cup {"frequency"} |->
        IF k = "frequency" THEN Frequency(group.dates) ELSE group[k]]

\* The second loop (284-300): sort each group's dates, add its frequency.
WithFrequency(group) ==
    LET dates == SortDates(group.dates)
    IN  [k \in DOMAIN group \cup {"frequency"} |->
            IF k = "frequency" THEN Frequency(dates)
            ELSE IF k = "dates" THEN dates
            ELSE group[k]]

_group_transactions(trans) ==
    LET groups == CollectGroups(trans, <<>>)
    IN  [i \in DOMAIN groups |-> WithFrequency(groups[i])]

RECURSIVE PrepareLoop(_, _, _, _)
PrepareLoop(groups, size, done, current_batch) ==
    IF groups = <<>>
    THEN IF current_batch # <<>> THEN Append(done, current_batch) ELSE done
    ELSE LET cur == Append(current_batch, Head(groups))
         IN  IF Len(cur) >= size
             THEN PrepareLoop(Tail(groups), size, Append(done, cur), <<>>)
             ELSE PrepareLoop(Tail(groups), size, done, cur)

\* The batches without the append of the last, partial batch (338-339).
FullBatchesOnly(grouped_transactions, size) ==
    LET all == PrepareLoop(grouped_transactions, size, <<>>, <<>>)
    IN  SelectSeq(all, LAMBDA batch : Len(batch) = size)
_prepare_batches(grouped_transactions, size) ==
    PrepareLoop(grouped_transactions, size, <<>>, <<>>)

-----------------------------------------------------------------------------
(* AICategorizer.process_transactions: ai_categorizer.py 380-446 *)

\* A loop that keeps what is already stored under a short description.
RECURSIVE StoreFirstResults(_, _)
StoreFirstResults(results, groups) ==
    IF results = <<>> THEN groups
    ELSE LET result == Head(results)
         IN  IF IsList(result.short_description) THEN groups
             ELSE StoreFirstResults(Tail(results),
                      IF result.short_description \in DOMAIN groups THEN groups
                      ELSE Put(groups, result.short_description,
                               [llm_category |-> result.llm_category,
                                llm_confidence |-> result.llm_confidence]))

\* The loop of lines 398-402. A short_description that is a list cannot be a
\* dict key: TypeError, caught at 404, which ends the loop for this batch.
RECURSIVE StoreResults(_, _)
StoreResults(results, groups) ==
    IF results = <<>> THEN groups
    ELSE LET result == Head(results)
         IN  IF IsList(result.short_description) THEN groups
             ELSE StoreResults(Tail(results),
                      Put(groups, result.short_description,
                          [llm_category |-> result.llm_category,
                           llm_confidence |-> result.llm_confidence]))

\* The keys that loop assigns.
RECURSIVE StoredKeys(_)
StoredKeys(results) ==
    IF results = <<>> \/ IsList(Head(results).short_description) THEN {}
    ELSE {Head(results).short_description} \cup StoredKeys(Tail(results))

\* Lines 410-431 with the deviation left at 0.
AttachWithoutPercent(trans, groups, ranges) ==
    LET key == trans["short-description"]
    IN  IF key \in DOMAIN groups
        THEN Update(trans,
                 [llm_category |-> groups[key].llm_category,
                  llm_confidence |-> groups[key].llm_confidence,
                  percent_outside_range |-> PyInt(0)])
        ELSE Update(trans,
                 [llm_category |-> PyNone, llm_confidence |-> PyNone,
                  percent_outside_range |-> PyNone])

\* Lines 410-431 for one transaction.
Attach(trans, groups, ranges) ==
    LET key == trans["short-description"]
    IN  IF key \in DOMAIN groups
        THEN Update(trans,
                 [llm_category |-> groups[key].llm_category,
                  llm_confidence |-> groups[key].llm_confidence,
                  percent_outside_range |->
                      _calculate_percent_outside_range(
                          ranges, trans.amount, groups[key].llm_category)])
        ELSE Update(trans,
                 [llm_category |-> PyNone, llm_confidence |-> PyNone,
                  percent_outside_range |-> PyNone])

NotCalled == [kind |-> "not_called"]

\* What a batch failure does to the loop: logged inside _get_categories,
\* which returns [], so the loop goes on with the next batch.
AfterBatchRaises(next_no) == [pc |-> "raised", batch_no |-> next_no]
AfterBatch(next_no) == [pc |-> "batches", batch_no |-> next_no]

\* One turn of the loop of lines 393-406 with the model answering `response`.
BatchIteration(response) ==
    LET no == batch_no + 1
        raised == PromptRaises(category_ranges) \/ response.kind # "array"
        after == AfterBatch(no)
    IN  /\ pc = "batches"
        /\ batch_no < Len(batches)
        /\ \E results \in {_get_categories(category_ranges, response)} :
           \E keys \in {StoredKeys(results)} :
              /\ last_results' = results
              /\ categorized_groups' = StoreResults(results, categorized_groups)
              /\ stored_by' = [k \in DOMAIN stored_by \cup keys |->
                                  IF k \in keys
                                  THEN (IF k \in DOMAIN stored_by THEN stored_by[k] ELSE {})
                                       \cup {no}
                                  ELSE stored_by[k]]
        /\ sent' = IF response = NotCalled THEN sent ELSE sent \cup {no}
        /\ failed' = IF raised THEN failed \cup {no} ELSE failed
        /\ pc' = (IF raised THEN after.pc ELSE "batches")
        /\ batch_no' = (IF raised THEN after.batch_no ELSE no)
        /\ UNCHANGED <<category_ranges, batch_size, transactions, batches,
                       processed_transactions>>
        /\ UNCHANGED <<fmVars, mainVars, fnVars>>

StartProcessing ==
    /\ pc = "ready"
    /\ batches' = _prepare_batches(_group_transactions(transactions), batch_size)
    /\ batch_no' = 0
    /\ categorized_groups' = <<>>
    /\ pc' = "batches"
    /\ UNCHANGED <<category_ranges, batch_size, transactions, processed_transactions,
                   sent, failed, stored_by, last_results>>
    /\ UNCHANGED <<fmVars, mainVars, fnVars>>

PromptFails ==
    /\ PromptRaises(category_ranges)
    /\ BatchIteration(NotCalled)

ModelCallFails ==
    /\ ~PromptRaises(category_ranges)
    /\ \E kind \in {"api_error", "invalid_json"} : BatchIteration([kind |-> kind])

FinishProcessing ==
    /\ pc = "batches"
    /\ batch_no = Len(batches)
    /\ processed_transactions' =
           [i \in DOMAIN transactions |->
               Attach(transactions[i], categorized_groups, category_ranges)]
    /\ pc' = "returned"
    /\ UNCHANGED <<category_ranges, batch_size, transactions, batches, batch_no,
                   categorized_groups, sent, failed, stored_by, last_results>>
    /\ UNCHANGED <<fmVars, mainVars, fnVars>>

-----------------------------------------------------------------------------
(* Inputs of the AI categorizer *)

MaxTrans == 2
MaxResponseLen == 2
MaxGetResponseLen == 3
DefaultBatchSize == 5

SeqsUpTo(S, n) == UNION {[1..k -> S] : k \in 0..n}

WidgetCo ==
    <<"w", "i", "d", "g", "e", "t", "c", "o">>
ZellePayment ==
    <<"z", "e", "l", "l", "e", " ", "p", "a", "y", "m", "e", "n", "t">>

Transaction(id, date, short_desc, amount) ==
    ("short-description" :> Str(short_desc)) @@
    [id |-> PyInt(id), date |-> date, description |-> Str(short_desc),
     amount |-> amount]

\* Transactions the dictionaries left unresolved.
TransactionPool ==
    { Transaction(1, IsoDate(2024, 3, 5), WidgetCo, 500),
      Transaction(2, IsoDate(2024, 3, 1), WidgetCo, 150000),
      Transaction(3, IsoDate(2024, 2, 28), ZellePayment, 50) }

\* parent_category_ranges.csv: missing or unreadable ({}), or one row.
RangeRow(lo, hi) == [min_amount |-> lo, max_amount |-> hi]

NoRanges == <<>>

RevenueRange == (Revenue :> RangeRow(100, 5000))

Result(short_desc, category, confidence) ==
    [short_description |-> short_desc, llm_category |-> category,
     llm_confidence |-> confidence]

\* Elements a model response may hold.
ResponseElems ==
    { Result(Str(WidgetCo), Str(RevenueServices), Rat(9, 10)),
      Result(Str(WidgetCo), Str(ExpensesRent), PyInt(1)),
      Result(Str(ZellePayment), Str(ExpensesRent), Rat(1, 2)),
      Result(Str(ZellePayment), Str(Bogus), Rat(9, 10)),
      Result(Str(WidgetCo), Str(RevenueServices), Rat(3, 2)),
      Result(Str(Starbucks), Str(Transfers), PyInt(0)),
      Result(PyList(<<WidgetCo>>), Str(RevenueServices), Rat(9, 10)) }

Responses == SeqsUpTo(ResponseElems, MaxResponseLen)

ModelResponds ==
    /\ ~PromptRaises(category_ranges)
    /\ \E items \in Responses :
           BatchIteration([kind |-> "array", items |-> items])

FmIdle ==
    /\ industry_exists = TRUE
    /\ match_cache = <<>>
    /\ match_log = <<>>
    /\ threshold = PyInt(0)
    /\ fm_in = PyNone
    /\ fm_out = PyNone
    /\ fm_status = "idle"
    /\ fm_lookups = {}
    /\ fm_scored = {}
    /\ processed = <<>>

MainIdle ==
    /\ api_key = TRUE
    /\ ai_categorizer = "unset"
    /\ all_transactions = <<>>
    /\ run_pc = "idle"
    /\ transactions_for_ai = <<>>
    /\ ai_calls = <<>>
    /\ ai_results = PyNone
    /\ excel_df = PyNone

AiIdle ==
    /\ transactions = <<>>
    /\ pc = "idle"
    /\ batches = <<>>
    /\ batch_no = 0
    /\ categorized_groups = <<>>
    /\ processed_transactions = <<>>
    /\ sent = {}
    /\ failed = {}
    /\ stored_by = <<>>
    /\ last_results = <<>>

InitAI ==
    /\ MainIdle
    /\ category_ranges \in {NoRanges, RevenueRange}
    /\ batch_size \in {1, 2, DefaultBatchSize}
    /\ transactions \in SeqsUpTo(TransactionPool, MaxTrans)
    /\ pc = "ready"
    /\ batches = <<>>
    /\ batch_no = 0
    /\ categorized_groups = <<>>
    /\ processed_transactions = <<>>
    /\ sent = {}
    /\ failed = {}
    /\ stored_by = <<>>
    /\ last_results = <<>>
    /\ FmIdle
    /\ call = PyNone
    /\ ret = NotDone

NextAI ==
    \/ StartProcessing
    \/ PromptFails
    \/ ModelCallFails
    \/ ModelResponds
    \/ FinishProcessing

SpecAI == InitAI /\ [][NextAI]_vars

-----------------------------------------------------------------------------
(* The fuzzy matcher over a list of transactions: the loop of               *)
(* process_json_transactions (fuzzy_matcher.py 274-287) and of              *)
(* process_and_categorize (main.py 181-201), one call per transaction.      *)

MaxProcessed == 3

SyscoInvoice ==
    <<"S", "Y", "S", "C", "O", " ", "F", "O", "O", "D", "S", " ", "0", "0",
      "0", "1", "2", "3", "4", "5">>
AcmeRentLlc ==
    <<"A", "c", "m", "e", " ", "R", "e", "n", "t", " ", "L", "L", "C">>
WidgetCoBill ==
    <<"W", "I", "D", "G", "E", "T", "C", "O", ".", "C", "O", "M", "/", "B",
      "I", "L", "L", " ", "4", "4", "1", "1">>
RentAcmeSeven ==
    <<"r", "e", "n", "t", " ", "a", "c", "m", "e", " ", "7">>

RawTransaction(id, description) ==
    [id |-> PyInt(id), date |-> IsoDate(2024, 3, 5),
     description |-> Str(description), amount |-> 500]

\* A record without the 'description' field.
MalformedTransaction ==
    [id |-> PyInt(9), date |-> IsoDate(2024, 3, 5), amount |-> 500]

RawTransactionPool ==
    { RawTransaction(1, SyscoInvoice), RawTransaction(2, AcmeRentLlc),
      RawTransaction(3, WidgetCoBill), RawTransaction(4, RentAcmeSeven),
      MalformedTransaction }

\* confidence_threshold: 0.5, the default 0.8, and 1.0
Thresholds == {Frac(1, 2), Frac(4, 5), PyInt(1)}

InitFM ==
    /\ MainIdle
    /\ category_ranges = NoRanges
    /\ batch_size = DefaultBatchSize
    /\ AiIdle
    /\ industry_exists = TRUE
    /\ match_cache = <<>>
    /\ match_log = <<>>
    /\ threshold \in Thresholds
    /\ fm_in = PyNone
    /\ fm_out = PyNone
    /\ fm_status = "idle"
    /\ fm_lookups = {}
    /\ fm_scored = {}
    /\ processed = <<>>
    /\ call = PyNone
    /\ ret = NotDone

ProcessTransaction ==
    /\ Len(processed) < MaxProcessed
    /\ \E transaction \in RawTransactionPool :
       \E done \in {process_transaction(match_cache, transaction, threshold)} :
          /\ fm_in' = transaction
          /\ fm_status' = done.status
          /\ fm_out' = done.value
          /\ match_cache' = done.cache
          /\ fm_lookups' = done.lookups
          /\ fm_scored' = done.scored
          /\ processed' = IF done.status = "raised" THEN processed
                          ELSE Append(processed, done.value)
    /\ UNCHANGED <<industry_exists, match_log, threshold, aiVars, mainVars, fnVars>>

NextFM == ProcessTransaction

SpecFM == InitFM /\ [][NextFM]_vars

-----------------------------------------------------------------------------
(* A sequence of _find_best_match calls on one FuzzyMatcher, with or       *)
(* without an industry file (fuzzy_matcher.py 15-51, 159-203).             *)

MaxCalls == 3

\* A key that shares no letter or digit with any dictionary entry.
SevenSeven == <<"7", "7">>

\* Keys the normalizer produces, the empty one among them.
MatchKeys == {SyscoFoods, RentAcme, WidgetCo, SevenSeven, <<>>}

InitMatch ==
    /\ MainIdle
    /\ category_ranges = NoRanges
    /\ batch_size = DefaultBatchSize
    /\ AiIdle
    /\ industry_exists \in BOOLEAN
    /\ match_cache = <<>>
    /\ match_log = <<>>
    /\ threshold = PyInt(0)
    /\ fm_in = PyNone
    /\ fm_out = PyNone
    /\ fm_status = "idle"
    /\ fm_lookups = {}
    /\ fm_scored = {}
    /\ processed = <<>>
    /\ call = PyNone
    /\ ret = NotDone

FindBestMatch ==
    /\ Len(match_log) < MaxCalls
    /\ \E description \in MatchKeys, dict_name \in {"industry", "general"} :
       \E found \in {_find_best_match(match_cache, description, dict_name)} :
          /\ call' = [description |-> description, dict_name |-> dict_name]
          /\ ret' = Done(<<found.match.category, found.match.confidence>>)
          /\ match_cache' = found.cache
          /\ fm_lookups' = {dict_name}
          /\ fm_scored' = {d \in {dict_name} : found.scored}
          /\ match_log' = Append(match_log,
                 [description |-> description, dict_name |-> dict_name,
                  result |-> <<found.match.category, found.match.confidence>>,
                  scored |-> found.scored])
    /\ UNCHANGED <<industry_exists, threshold, fm_in, fm_out, fm_status,
                   processed, aiVars, mainVars>>

NextMatch == FindBestMatch

SpecMatch == InitMatch /\ [][NextMatch]_vars

-----------------------------------------------------------------------------
(* Calls of _create_short_description (fuzzy_matcher.py 63-119) on every   *)
(* short string over a small alphabet and on some statement lines.         *)

MaxDescLen == 3

DescriptionChars == {"A", "b", "7", " ", "\t", "&", ".", "/"}

\* 19 characters, a blank and more: the cut at 20 ends on the blank.
GoldenStateWaters ==
    <<"G", "o", "l", "d", "e", "n", " ", " ", "S", "t", "a", "t", "e", " ",
      "W", "a", "t", "e", "r", "s", " ", "&", " ", "P", "o", "w", "e", "r">>
\* One word of 26 letters.
AlphabetSoup ==
    <<"A", "B", "C", "D", "E", "F", "G", "H", "I", "J", "K", "L", "M", "N",
      "O", "P", "Q", "R", "S", "T", "U", "V", "W", "X", "Y", "Z">>

\* A name followed by two short numbers.
AchTwoNumbers == <<"A", "C", "H", " ", "1", "2", " ", "3", "4">>

Descriptions ==
    SeqsUpTo(DescriptionChars, MaxDescLen) \cup
    {SyscoInvoice, AcmeRentLlc, WidgetCoBill, RentAcmeSeven, GoldenStateWaters,
     AlphabetSoup, AchTwoNumbers}

InitNorm ==
    /\ MainIdle
    /\ category_ranges = NoRanges
    /\ batch_size = DefaultBatchSize
    /\ AiIdle
    /\ FmIdle
    /\ call \in [description : Descriptions]
    /\ ret = NotDone

CreateShortDescription ==
    /\ ~ret.done
    /\ ret' = Done(_create_short_description(call.description))
    /\ UNCHANGED <<aiVars, fmVars, mainVars, call>>

NextNorm == CreateShortDescription

SpecNorm == InitNorm /\ [][NextNorm]_vars

-----------------------------------------------------------------------------
(* The orchestrator: FinancialStatementBuilderApp.load_categorizers        *)
(* (main.py 90-120) and the categorization part of process_and_categorize  *)
(* (main.py 181-259), for a selected industry and an existing general      *)
(* dictionary.                                                             *)

MaxRun == 3

\* CONFIDENCE_THRESHOLD = 0.8
CONFIDENCE_THRESHOLD == Frac(4, 5)

\* A pandas Timestamp, and its strftime('%Y-%m-%d')
Timestamp(y, m, d) == [timestamp |-> <<y, m, d>>]
Strftime(date) ==
    IF "timestamp" \in DOMAIN date
    THEN IsoDate(date.timestamp[1], date.timestamp[2], date.timestamp[3])
    ELSE date

\* A cell of a frame built from dictionaries that lack the column
NaN == [nan |-> TRUE]

Uncategorized == <<"Uncategorized">>

ZelleLine ==
    <<"Z", "E", "L", "L", "E", " ", "P", "A", "Y", "M", "E", "N", "T", " ",
      "#", "8", "8">>

\* transaction.to_dict() of a row that passed validate_data('pdf_processing')
StatementRow(date, description, amount) ==
    [date |-> date, description |-> Str(description), amount |-> amount]

StatementRows ==
    { StatementRow(Timestamp(2024, 3, 5), SyscoInvoice, 500),
      StatementRow(Timestamp(2024, 3, 1), AcmeRentLlc, 1200),
      StatementRow(Timestamp(2024, 3, 5), WidgetCoBill, 500),
      StatementRow(Timestamp(2024, 2, 28), ZelleLine, 50) }

\* AICategorizer._load_valid_categories: pd.read_csv of the industry path
\* raises when the file is missing, and the error is raised again (75-77).
_load_valid_categories ==
    IF industry_exists
    THEN [status |-> "ok", value |-> valid_categories]
    ELSE [status |-> "raised"]

\* AICategorizer.__init__: ValueError without a key, then the vocabulary.
AICategorizer ==
    IF ~api_key THEN "ValueError"
    ELSE IF _load_valid_categories.status = "raised" THEN "FileNotFoundError"
    ELSE "ready"

\* What process_transactions can return for the rows it is given: every
\* row with the result stored under its short description, if any
\* (ai_categorizer.py 393-431).  Without a 'Revenue' range no batch gets
\* a result.
AiAnswers ==
    {[llm_category |-> Str(c), llm_confidence |-> Frac(9, 10)] :
        c \in {RevenueServices, ExpensesRent}}

AiOutcomes(trans, ranges) ==
    LET keys == {trans[i]["short-description"] : i \in DOMAIN trans}
        lookups == IF PromptRaises(ranges) THEN {<<>>}
                   ELSE UNION {[K -> AiAnswers] : K \in SUBSET keys}
    IN  {[i \in DOMAIN trans |-> Attach(trans[i], g, ranges)] : g \in lookups}

\* The loop of lines 209-218: every processed row takes llm_category and
\* llm_confidence from the first result with its short description.
MergeAiResults(rows, results) ==
    [i \in DOMAIN rows |->
        LET same == {r \in DOMAIN results :
                        results[r]["short-description"] =
                            rows[i]["short-description"]}
        IN  IF same = {} THEN rows[i]
            ELSE LET first == CHOOSE r \in same : \A q \in same : r <= q
                 IN  Update(rows[i],
                         [llm_category |-> results[first].llm_category,
                          llm_confidence |-> results[first].llm_confidence])]

\* A cell of pd.DataFrame(processed_transactions)
Cell(rows, i, column) ==
    IF column \in DOMAIN rows[i] THEN rows[i][column] ELSE NaN

\* A lambda that takes the general category whenever the industry
\* dictionary did not resolve the row.
CategoryWithoutAi(rows, i) ==
    IF ~RatLess(Cell(rows, i, "industry-dictionary-category-confidence-level"),
                CONFIDENCE_THRESHOLD)
    THEN Cell(rows, i, "industry-dictionary-category")
    ELSE Cell(rows, i, "general-dictionary-category")

\* The lambda of lines 248-256 on row i; x.get falls back to
\* 'Uncategorized' only when the frame has no llm_category column.
Category(rows, i) ==
    IF ~RatLess(Cell(rows, i, "industry-dictionary-category-confidence-level"),
                CONFIDENCE_THRESHOLD)
    THEN Cell(rows, i, "industry-dictionary-category")
    ELSE IF ~RatLess(Cell(rows, i, "general-dictionary-category-confidence-level"),
                     CONFIDENCE_THRESHOLD)
    THEN Cell(rows, i, "general-dictionary-category")
    ELSE IF \E j \in DOMAIN rows : "llm_category" \in DOMAIN rows[j]
    THEN Cell(rows, i, "llm_category")
    ELSE Str(Uncategorized)

InitMain ==
    /\ category_ranges = RevenueRange
    /\ batch_size = DefaultBatchSize
    /\ AiIdle
    /\ industry_exists \in BOOLEAN
    /\ match_cache = <<>>
    /\ match_log = <<>>
    /\ threshold = CONFIDENCE_THRESHOLD
    /\ fm_in = PyNone
    /\ fm_out = PyNone
    /\ fm_status = "idle"
    /\ fm_lookups = {}
    /\ fm_scored = {}
    /\ processed = <<>>
    /\ api_key \in BOOLEAN
    /\ ai_categorizer = "unset"
    /\ all_transactions \in SeqsUpTo(StatementRows, MaxRun) \ {<<>>}
    /\ run_pc = "start"
    /\ transactions_for_ai = <<>>
    /\ ai_calls = <<>>
    /\ ai_results = PyNone
    /\ excel_df = PyNone
    /\ call = PyNone
    /\ ret = NotDone

\* load_categorizers: the matcher is built with or without an industry
\* file; the AI categorizer only when that file exists and the key is set.
LoadCategorizers ==
    /\ run_pc = "start"
    /\ ai_categorizer' = IF industry_exists
                         THEN (IF AICategorizer = "ready" THEN "ready" ELSE "none")
                         ELSE "none"
    /\ run_pc' = "loaded"
    /\ UNCHANGED <<api_key, all_transactions, transactions_for_ai, ai_calls,
                   ai_results, excel_df, aiVars, fmVars, fnVars>>

\* One turn of the loop of lines 185-201.  process_transaction either
\* enriches the row or, when anything in it raises, hands the row back as
\* it was (fuzzy_matcher.py 255-257); line 192 then reads a field the row
\* does not have, and the KeyError ends the run in the handler of line 307.
DictionaryStage ==
    /\ run_pc \in {"loaded", "cascade"}
    /\ Len(processed) < Len(all_transactions)
    /\ \E transaction \in {all_transactions[Len(processed) + 1]} :
       \E done \in {process_transaction(match_cache, transaction, threshold),
                    OnException(transaction) @@
                    [cache |-> match_cache, lookups |-> {}, scored |-> {}]} :
          /\ fm_in' = transaction
          /\ fm_status' = done.status
          /\ fm_out' = done.value
          /\ match_cache' = done.cache
          /\ fm_lookups' = done.lookups
          /\ fm_scored' = done.scored
          /\ IF "industry-dictionary-category-confidence-level" \notin
                    DOMAIN done.value
             THEN /\ run_pc' = "aborted"
                  /\ UNCHANGED <<processed, transactions_for_ai>>
             ELSE /\ run_pc' = "cascade"
                  /\ processed' = Append(processed, done.value)
                  /\ transactions_for_ai' =
                        IF /\ RatLess(IndustryConfidenceOf(done.value), threshold)
                           /\ RatLess(GeneralConfidenceOf(done.value), threshold)
                        THEN Append(transactions_for_ai,
                                 [done.value EXCEPT !.date = Strftime(@)])
                        ELSE transactions_for_ai
    /\ UNCHANGED <<industry_exists, match_log, threshold, api_key,
                   ai_categorizer, all_transactions, ai_calls, ai_results,
                   excel_df, aiVars, fnVars>>

CascadeDone ==
    /\ run_pc = "cascade"
    /\ Len(processed) = Len(all_transactions)

\* The AI stage entered whenever there is an AI categorizer.
AiAlwaysWanted == ai_categorizer = "ready"

\* if self.ai_categorizer and transactions_for_ai
AiWanted == ai_categorizer = "ready" /\ transactions_for_ai # <<>>

\* Lines 204-219: the AI stage returns and its results are merged.
AiStageReturns ==
    /\ CascadeDone
    /\ AiWanted
    /\ \E results \in AiOutcomes(transactions_for_ai, category_ranges) :
          /\ ai_results' = PyList(results)
          /\ processed' = MergeAiResults(processed, results)
    /\ ai_calls' = Append(ai_calls, transactions_for_ai)
    /\ run_pc' = "merged"
    /\ UNCHANGED <<industry_exists, match_cache, match_log, threshold, fm_in,
                   fm_out, fm_status, fm_lookups, fm_scored, api_key,
                   ai_categorizer, all_transactions, transactions_for_ai,
                   excel_df, aiVars, fnVars>>

\* Lines 222-224: process_transactions raised (it raises again whatever
\* its grouping raises, ai_categorizer.py 444-446); the run goes on.
AiStageRaises ==
    /\ CascadeDone
    /\ AiWanted
    /\ ai_results' = Str(<<"raised">>)
    /\ ai_calls' = Append(ai_calls, transactions_for_ai)
    /\ run_pc' = "merged"
    /\ UNCHANGED <<api_key, ai_categorizer, all_transactions,
                   transactions_for_ai, excel_df, aiVars, fmVars, fnVars>>

\* Line 204 is false: no AI categorizer, or nothing left for it.
AiStageSkipped ==
    /\ CascadeDone
    /\ ~AiWanted
    /\ run_pc' = "merged"
    /\ UNCHANGED <<api_key, ai_categorizer, all_transactions,
                   transactions_for_ai, ai_calls, ai_results, excel_df,
                   aiVars, fmVars, fnVars>>

\* Lines 226-259: the frame of the processed rows and the output rows.
BuildOutput ==
    /\ run_pc = "merged"
    /\ excel_df' = PyList([i \in DOMAIN processed |->
                      [Date |-> Cell(processed, i, "date"),
                       Description |-> Cell(processed, i, "description"),
                       Category |-> Category(processed, i),
                       Amount |-> Cell(processed, i, "amount")]])
    /\ run_pc' = "emitted"
    /\ UNCHANGED <<api_key, ai_categorizer, all_transactions,
                   transactions_for_ai, ai_calls, ai_results,
                   aiVars, fmVars, fnVars>>

NextMain ==
    \/ LoadCategorizers
    \/ DictionaryStage
    \/ AiStageReturns
    \/ AiStageRaises
    \/ AiStageSkipped
    \/ BuildOutput

SpecMain == InitMain /\ [][NextMain]_vars

-----------------------------------------------------------------------------
(* Calls of single functions, their arguments drawn from bounded sets *)

MaxBound == 2
MaxGroups == 4
MaxBatchSize == 3

RangeTables ==
    {NoRanges} \cup
    {(Revenue :> RangeRow(lo, hi)) :
        <<lo, hi>> \in {b \in (0 - MaxBound..MaxBound) \X (0 - MaxBound..MaxBound) :
                          b[1] <= b[2]}}

Amounts == (0 - MaxBound - 1)..(MaxBound + 1)

RangeCategories ==
    {Str(RevenueServices), Str(RevenueSpaced), Str(Revenue), Str(ExpensesRent),
     Str(EmptyStr), Str(ColonFirst)}

InitRange ==
    /\ MainIdle
    /\ category_ranges \in RangeTables
    /\ batch_size = DefaultBatchSize
    /\ call \in [fn : {"_calculate_percent_outside_range"}, amount : Amounts,
                 category : RangeCategories]
    /\ ret = NotDone
    /\ AiIdle
    /\ FmIdle

CalculatePercent ==
    /\ call.fn = "_calculate_percent_outside_range"
    /\ ret = NotDone
    /\ ret' = Done(_calculate_percent_outside_range(
                       category_ranges, call.amount, call.category))
    /\ UNCHANGED <<aiVars, fmVars, mainVars, call>>

NextRange == CalculatePercent

SpecRange == InitRange /\ [][NextRange]_vars

\* Groups as _group_transactions builds them.
GroupItems ==
    {_group_transactions(<<t>>)[1] : t \in TransactionPool}

InitBatch ==
    /\ MainIdle
    /\ category_ranges = NoRanges
    /\ batch_size \in (1..MaxBatchSize) \cup {DefaultBatchSize}
    /\ call \in [fn : {"_prepare_batches"},
                 grouped_transactions : SeqsUpTo(GroupItems, MaxGroups)]
    /\ ret = NotDone
    /\ AiIdle
    /\ FmIdle

PrepareBatches ==
    /\ call.fn = "_prepare_batches"
    /\ ret = NotDone
    /\ ret' = Done(_prepare_batches(call.grouped_transactions, batch_size))
    /\ UNCHANGED <<aiVars, fmVars, mainVars, call>>

NextBatch == PrepareBatches

SpecBatch == InitBatch /\ [][NextBatch]_vars

\* Transactions for _group_transactions: two short descriptions, dates out
\* of order across a month's and a year's end, and a record without an id.
MaxGroupTrans == 3

GroupTransactionPool ==
    TransactionPool \cup
    { Transaction(4, IsoDate(2024, 3, 3), ZellePayment, 75),
      [k \in {"short-description", "date", "description", "amount"} |->
          Transaction(5, IsoDate(2023, 12, 31), WidgetCo, 20)[k]] }

InitGroup ==
    /\ MainIdle
    /\ category_ranges = NoRanges
    /\ batch_size = DefaultBatchSize
    /\ call \in [fn : {"_group_transactions"},
                 transactions : SeqsUpTo(GroupTransactionPool, MaxGroupTrans)]
    /\ ret = NotDone
    /\ AiIdle
    /\ FmIdle

GroupTransactions ==
    /\ call.fn = "_group_transactions"
    /\ ret = NotDone
    /\ ret' = Done(_group_transactions(call.transactions))
    /\ UNCHANGED <<aiVars, fmVars, mainVars, call>>

NextGroup == GroupTransactions

SpecGroup == InitGroup /\ [][NextGroup]_vars

\* More elements a response may hold: a missing field each, a null or
\* list-valued category, a confidence that is a string, a bool, null or
\* negative, and an element that is no object at all.
MoreElems ==
    { [short_description |-> Str(ZellePayment), llm_category |-> Str(Transfers)],
      [short_description |-> Str(ZellePayment), llm_confidence |-> Rat(1, 2)],
      [llm_category |-> Str(Transfers), llm_confidence |-> Rat(1, 2)],
      Result(Str(ZellePayment), PyNone, Rat(1, 2)),
      Result(Str(ZellePayment), PyList(<<Transfers>>), Rat(1, 2)),
      Result(Str(ZellePayment), Str(Transfers), Str(<<"high">>)),
      Result(Str(ZellePayment), Str(Transfers), PyBool(TRUE)),
      Result(Str(ZellePayment), Str(Transfers), PyNone),
      Result(Str(ZellePayment), Str(Transfers), Rat(0 - 1, 10)),
      [nondict |-> TRUE] }

GetResponses ==
    {[kind |-> "api_error"], [kind |-> "invalid_json"]} \cup
    {[kind |-> "array", items |-> items] :
        items \in SeqsUpTo(ResponseElems \cup MoreElems, MaxGetResponseLen)}

InitGet ==
    /\ MainIdle
    /\ category_ranges \in {NoRanges, RevenueRange}
    /\ batch_size = DefaultBatchSize
    /\ call \in [fn : {"_get_categories"},
                 response : IF PromptRaises(category_ranges)
                            THEN {NotCalled} ELSE GetResponses]
    /\ ret = NotDone
    /\ AiIdle
    /\ FmIdle

GetCategories ==
    /\ call.fn = "_get_categories"
    /\ ret = NotDone
    /\ ret' = Done(_get_categories(category_ranges, call.response))
    /\ UNCHANGED <<aiVars, fmVars, mainVars, call>>

NextGet == GetCategories

SpecGet == InitGet /\ [][NextGet]_vars

-----------------------------------------------------------------------------
(* Properties of the AI categorizer *)

Returned == pc = "returned"

AllNull(t) ==
    /\ t.llm_category = PyNone
    /\ t.llm_confidence = PyNone
    /\ t.percent_outside_range = PyNone

\* A Python number (bool counts as int) between 0 and 1.
InUnitInterval(v) ==
    /\ IsRat(v) \/ IsBool(v)
    /\ RatLeq(PyInt(0), AsRat(v))
    /\ RatLeq(AsRat(v), PyInt(1))

\* The vocabulary, read off the dictionaries' category columns.
Vocabulary ==
    {industry_dict[i].category : i \in DOMAIN industry_dict} \cup
    {general_dict[i].category : i \in DOMAIN general_dict}

\* C3: after process_transactions returns, whatever the model answered,
\* every output transaction's llm_category is null or a member of the
\* vocabulary of the two dictionaries, and its llm_confidence is null or a
\* number in [0, 1].
C3_OutputWithinVocabulary ==
    Returned =>
        \A i \in DOMAIN processed_transactions :
            LET t == processed_transactions[i]
            IN  /\ \/ t.llm_category = PyNone
                   \/ IsStr(t.llm_category) /\ t.llm_category.str \in Vocabulary
                /\ \/ t.llm_confidence = PyNone
                   \/ InUnitInterval(t.llm_confidence)

\* A run that returned with one transaction categorized and another left
\* null, after the model was invoked.
C3_Witness ==
    /\ Returned
    /\ sent # {}
    /\ \E i, j \in DOMAIN processed_transactions :
           /\ processed_transactions[i].llm_category # PyNone
           /\ processed_transactions[j].llm_category = PyNone

\* The short descriptions of the groups of batch k.
BatchKeys(k) == {batches[k][g].short_description : g \in DOMAIN batches[k]}

ShortDesc(i) == transactions[i]["short-description"]

\* The last result of `results` stored under `key`.
LastUnder(results, key) ==
    LET at == {n \in DOMAIN results : results[n].short_description = key}
    IN  results[CHOOSE n \in at : \A m \in at : m <= n]

\* The results of `results` that come before the first one whose
\* short_description is a list.
RECURSIVE UpToUnhashable(_)
UpToUnhashable(results) ==
    IF results = <<>> \/ IsList(Head(results).short_description) THEN <<>>
    ELSE <<Head(results)>> \o UpToUnhashable(Tail(results))

NewFields == {"llm_category", "llm_confidence", "percent_outside_range"}

\* C6: process_transactions returns one record per input transaction, in
\* input order; record i carries the llm_category and llm_confidence stored
\* under transaction i's short-description and the percent_outside_range
\* of transaction i's own amount for that category; all three are null when
\* nothing is stored under its short-description.
C6_OneRecordPerTransaction ==
    Returned =>
        /\ Len(processed_transactions) = Len(transactions)
        /\ \A i \in DOMAIN transactions :
               LET t == processed_transactions[i]
                   key == ShortDesc(i)
               IN  /\ DOMAIN t = DOMAIN transactions[i] \cup NewFields
                   /\ \A f \in DOMAIN transactions[i] : t[f] = transactions[i][f]
                   /\ IF key \in DOMAIN categorized_groups
                      THEN /\ t.llm_category = categorized_groups[key].llm_category
                           /\ t.llm_confidence = categorized_groups[key].llm_confidence
                           /\ t.percent_outside_range =
                                  _calculate_percent_outside_range(
                                      category_ranges, transactions[i].amount,
                                      categorized_groups[key].llm_category)
                      ELSE AllNull(t)

\* Two transactions of one group returned with the same category and
\* different deviations, each from its own amount.
C6_Witness ==
    /\ Returned
    /\ \E i, j \in DOMAIN processed_transactions :
           /\ i < j
           /\ ShortDesc(i) = ShortDesc(j)
           /\ processed_transactions[i].llm_category # PyNone
           /\ processed_transactions[i].percent_outside_range #
                  processed_transactions[j].percent_outside_range

\* C9: an output transaction whose llm_category has a parent without a
\* configured range carries percent_outside_range = null, and 0 only when
\* its amount lies within the configured range of the category's parent.
C9_NoRangeIsNull ==
    Returned =>
        \A i \in DOMAIN processed_transactions :
            LET t == processed_transactions[i]
                parent == _get_parent_category(t.llm_category)
            IN  t.llm_category # PyNone =>
                    /\ parent.str \notin DOMAIN category_ranges
                           => t.percent_outside_range = PyNone
                    /\ t.percent_outside_range = PyInt(0) =>
                           /\ parent.str \in DOMAIN category_ranges
                           /\ category_ranges[parent.str].min_amount <= t.amount
                           /\ t.amount <= category_ranges[parent.str].max_amount

\* C16: with the range table missing or unreadable the categorizer runs
\* with an empty range set and only range validation changes: every batch
\* still gets from _get_categories the validated results of the model's
\* response, so a batch is without results only when the model was asked
\* for it and the call or the parse failed, and every categorized
\* transaction carries percent_outside_range = 0.
C16_AbsentRangesLoseNothing ==
    category_ranges = NoRanges =>
        /\ failed \subseteq sent
        /\ Returned =>
               \A i \in DOMAIN processed_transactions :
                   processed_transactions[i].llm_category # PyNone =>
                       processed_transactions[i].percent_outside_range = PyInt(0)

\* C21: during process_transactions the model is invoked exactly once per
\* batch, in batch order and one batch at a time: when the loop has taken n
\* batches the model was invoked for the batches 1..n and no other, a failed
\* batch is not invoked again, and at the return the number of invocations
\* is the number of batches.
C21_OneInvocationPerBatch ==
    /\ sent = 1..batch_no
    /\ Returned => Cardinality(sent) = Len(batches)

\* The category and confidence of a result.
Stored(result) ==
    [llm_category |-> result.llm_category, llm_confidence |-> result.llm_confidence]

\* C28: after process_transactions returns, whatever the batches and the
\* responses, all output transactions of one short description carry the
\* same llm_category and llm_confidence: both null when nothing was stored
\* under it, and otherwise those of the last validated result stored under
\* it (every batch leaves under each key it stores the last of its results
\* for that key, and leaves every other key as it was).
C28_GroupMembersAgree ==
    /\ [][ \A key \in DOMAIN categorized_groups' :
               IF pc = "batches" /\ batch_no' # batch_no
                  /\ key \in StoredKeys(last_results')
               THEN categorized_groups'[key] =
                        Stored(LastUnder(UpToUnhashable(last_results'), key))
               ELSE /\ key \in DOMAIN categorized_groups
                    /\ categorized_groups'[key] = categorized_groups[key] ]_vars
    /\ [](Returned =>
             \A i \in DOMAIN transactions :
                 /\ \A j \in DOMAIN transactions :
                        ShortDesc(i) = ShortDesc(j) =>
                            Stored(processed_transactions[i]) =
                                Stored(processed_transactions[j])
                 /\ IF ShortDesc(i) \in DOMAIN stored_by
                    THEN Stored(processed_transactions[i]) =
                             categorized_groups[ShortDesc(i)]
                    ELSE Stored(processed_transactions[i]) =
                             [llm_category |-> PyNone, llm_confidence |-> PyNone])

\* Two transactions of one short description, and a response that names it
\* twice with different categories: both carry the second.
C28_Witness ==
    /\ Returned
    /\ Len(transactions) = 2
    /\ transactions[1] # transactions[2]
    /\ ShortDesc(1) = ShortDesc(2)
    /\ Len(last_results) = 2
    /\ last_results[1].short_description = ShortDesc(1)
    /\ last_results[2].short_description = ShortDesc(1)
    /\ last_results[1].llm_category # last_results[2].llm_category
    /\ Stored(processed_transactions[1]) = Stored(last_results[2])
    /\ Stored(processed_transactions[2]) = Stored(last_results[2])

\* C26: in process_transactions a validated result is only stored, and so
\* only attached, under a short description of a group of the batch whose
\* response held it: the response to batch k sets or overwrites nothing of
\* another batch's group, and a result that names no group of its batch is
\* not stored.
C26_ResultsStayInBatch ==
    \A key \in DOMAIN stored_by : \A k \in stored_by[key] : key \in BatchKeys(k)

-----------------------------------------------------------------------------
(* Properties of the single functions *)

\* What C4 asks of an element: all three fields, a category of the
\* vocabulary, a confidence that is a number within [0, 1].
C4Accepts(e) ==
    /\ {"short_description", "llm_category", "llm_confidence"} \subseteq DOMAIN e
    /\ \E c \in Vocabulary : e.llm_category = Str(c)
    /\ InUnitInterval(e.llm_confidence)

\* C4: for a response that parses as an array, _get_categories returns
\* exactly the elements that have the three fields, a category of the
\* vocabulary and a numeric confidence within [0, 1], in response order; a
\* failing element is dropped alone, and nothing is raised.
C4_ValidElementsKept ==
    (ret.done /\ call.fn = "_get_categories" /\ call.response.kind = "array") =>
        ret.value = SelectSeq(call.response.items, C4Accepts)

\* A response of a valid element, a failing one and a valid one again, of
\* which the two valid ones were returned.
C4_Witness ==
    /\ ret.done
    /\ call.fn = "_get_categories"
    /\ call.response.kind = "array"
    /\ Len(call.response.items) = 3
    /\ ~C4Accepts(call.response.items[2])
    /\ ret.value = <<call.response.items[1], call.response.items[3]>>

\* v is the quotient num / den.
IsQuotient(v, num, den) == den # 0 /\ v.n * den = num * v.d

\* C8: for a category whose parent has a configured range [min, max] and any
\* amount, _calculate_percent_outside_range returns 0 when min <= amount <=
\* max, (amount - min) / min * 100 when amount < min and
\* (amount - max) / max * 100 when amount > max.
C8_SignedPercentage ==
    (ret.done /\ call.fn = "_calculate_percent_outside_range") =>
        LET parent == Strip(BeforeFirstColon(call.category.str))
            a == call.amount
        IN  parent \in DOMAIN category_ranges =>
                LET lo == category_ranges[parent].min_amount
                    hi == category_ranges[parent].max_amount
                IN  /\ (lo <= a /\ a <= hi) => ret.value = PyInt(0)
                    /\ a < lo => IsQuotient(ret.value, (a - lo) * 100, lo)
                    /\ a > hi => IsQuotient(ret.value, (a - hi) * 100, hi)

\* C23: for every configured range, negative bounds included, the sign of
\* the value _calculate_percent_outside_range returns tells the side of
\* the violation: negative when amount < min_amount, positive when
\* amount > max_amount, and 0 when the amount is within the range.
C23_SignTellsSide ==
    (ret.done /\ call.fn = "_calculate_percent_outside_range") =>
        \E parent \in {Strip(BeforeFirstColon(call.category.str))} :
            parent \in DOMAIN category_ranges =>
                /\ call.amount < category_ranges[parent].min_amount =>
                       RatLess(ret.value, PyInt(0))
                /\ call.amount > category_ranges[parent].max_amount =>
                       RatLess(PyInt(0), ret.value)
                /\ (/\ category_ranges[parent].min_amount <= call.amount
                    /\ call.amount <= category_ranges[parent].max_amount) =>
                       ret.value = PyInt(0)

\* C29: for every configured range, a bound of 0 included, and every
\* amount strictly outside [min_amount, max_amount],
\* _calculate_percent_outside_range returns a value that is not 0, the
\* value of an amount within the range.
C29_OutsideIsNeverZero ==
    (ret.done /\ call.fn = "_calculate_percent_outside_range") =>
        \E parent \in {Strip(BeforeFirstColon(call.category.str))} :
            (/\ parent \in DOMAIN category_ranges
             /\ \/ call.amount < category_ranges[parent].min_amount
                \/ call.amount > category_ranges[parent].max_amount)
            => ret.value.n # 0

RECURSIVE Flatten(_)
Flatten(seqs) == IF seqs = <<>> THEN <<>> ELSE Head(seqs) \o Flatten(Tail(seqs))

\* C10: for every list of groups and batch size b >= 1 the batches of
\* _prepare_batches, concatenated in order, are the input list; every batch
\* is non-empty, every batch but the last has exactly b groups, the last at
\* most b, and an empty input yields no batches.
C10_BatchesPartitionInput ==
    (ret.done /\ call.fn = "_prepare_batches") =>
        LET bs == ret.value
        IN  /\ Flatten(bs) = call.grouped_transactions
            /\ \A i \in DOMAIN bs : bs[i] # <<>> /\ Len(bs[i]) <= batch_size
            /\ \A i \in 1..(Len(bs) - 1) : Len(bs[i]) = batch_size
            /\ call.grouped_transactions = <<>> => bs = <<>>

\* Four groups cut into a full batch of three and a last batch of one.
C10_Witness ==
    /\ ret.done
    /\ call.fn = "_prepare_batches"
    /\ batch_size = 3
    /\ Len(ret.value) = 2
    /\ Len(ret.value[1]) = 3
    /\ Len(ret.value[2]) = 1

-----------------------------------------------------------------------------
(* Properties of the fuzzy matcher *)

IndustryConfidence(r) == r["industry-dictionary-category-confidence-level"]
GeneralConfidence(r) == r["general-dictionary-category-confidence-level"]

\* The highest score of a description against a dictionary, as a fraction.
TopScore(description, dict_name) ==
    LET rows == dictionaries[dict_name]
        scores == {token_sort_ratio(description, rows[i].short_description) :
                      i \in DOMAIN rows} \cup {0}
    IN  Frac(CHOOSE s \in scores : \A x \in scores : x <= s, 100)

\* Both dictionaries score the transaction's description below the threshold.
BothBelow(t) ==
    LET key == _create_short_description(t.description.str)
    IN  /\ RatLess(TopScore(key, "industry"), threshold)
        /\ RatLess(TopScore(key, "general"), threshold)

\* t.get('llm-category') is None, the count of fuzzy_matcher.py 296-297
NeedsLlm(t) == Get(t, "llm-category") = PyNone

\* C1: for every transaction (a record with a description) and threshold,
\* process_transaction sets 'llm-category' to null exactly when the industry
\* and the general confidence are both below the threshold, a confidence
\* equal to the threshold counting as resolved, and leaves it "N/A"
\* otherwise; so over a list of transactions the number that need the model
\* is the number with both confidences below the threshold.
C1_LlmNeededIffBothBelow ==
    LET done == {i \in DOMAIN processed : "description" \in DOMAIN processed[i]}
    IN  /\ \A i \in done :
              processed[i]["llm-category"] =
                  (IF BothBelow(processed[i]) THEN PyNone ELSE Str(NA))
        /\ done = DOMAIN processed =>
              Cardinality({i \in DOMAIN processed : NeedsLlm(processed[i])}) =
              Cardinality({i \in DOMAIN processed : BothBelow(processed[i])})

\* A list with a transaction left to the model, one resolved by an industry
\* confidence equal to the threshold and one resolved by a general
\* confidence equal to the threshold.
C1_Witness ==
    \E i, j, k \in DOMAIN processed :
        /\ \A x \in {i, j, k} : "description" \in DOMAIN processed[x]
        /\ processed[i]["llm-category"] = PyNone
        /\ IndustryConfidence(processed[j]) = threshold
        /\ processed[j]["llm-category"] = Str(NA)
        /\ RatLess(IndustryConfidence(processed[k]), threshold)
        /\ GeneralConfidence(processed[k]) = threshold
        /\ processed[k]["llm-category"] = Str(NA)

IsGeneralKey(cache_key) == cache_key[2] = "general"

\* C2: when process_transaction finds the industry confidence at or above
\* the threshold, the general dictionary is not consulted for that
\* transaction: no general match is computed or cached, and the result keeps
\* general-dictionary-category "N/A" and a null general confidence.
C2_GeneralNeverConsulted ==
    /\ [](  (fm_status = "ok" /\ ~RatLess(IndustryConfidence(fm_out), threshold))
            => /\ "general" \notin fm_lookups
               /\ "general" \notin fm_scored
               /\ fm_out["general-dictionary-category"] = Str(NA)
               /\ GeneralConfidence(fm_out) = PyNone)
    /\ [][  (fm_status' = "ok" /\ ~RatLess(IndustryConfidence(fm_out'), threshold'))
            => \A cache_key \in DOMAIN match_cache' :
                   IsGeneralKey(cache_key) => cache_key \in DOMAIN match_cache ]_vars

\* A transaction resolved by the industry dictionary, processed after one
\* that went on to the general dictionary and left a match in the cache.
C2_Witness ==
    /\ fm_status = "ok"
    /\ ~RatLess(IndustryConfidence(fm_out), threshold)
    /\ fm_lookups = {"industry"}
    /\ GeneralConfidence(fm_out) = PyNone
    /\ \E cache_key \in DOMAIN match_cache : IsGeneralKey(cache_key)

\* C7: process_transaction never raises to its caller; when an exception
\* occurs while one transaction is normalized or matched, it returns the
\* transaction it was given, with no field added.
C7_ReturnsOriginalOnError ==
    /\ fm_status # "raised"
    /\ fm_status = "caught" => fm_out = fm_in

\* A record without a description came back as it was, after a transaction
\* that was processed in full.
C7_Witness ==
    /\ fm_status = "caught"
    /\ fm_out = MalformedTransaction
    /\ "short-description" \notin DOMAIN fm_out
    /\ Len(processed) = 2
    /\ "short-description" \in DOMAIN processed[1]
    /\ processed[2] = fm_out

-----------------------------------------------------------------------------
(* Properties of the grouper *)

KeyOf(t) == t["short-description"]

\* The distinct short descriptions of a list, in order of first occurrence.
RECURSIVE FirstKeys(_, _)
FirstKeys(trans, seen) ==
    IF trans = <<>> THEN <<>>
    ELSE IF KeyOf(Head(trans)) \in seen THEN FirstKeys(Tail(trans), seen)
    ELSE <<KeyOf(Head(trans))>> \o FirstKeys(Tail(trans), seen \cup {KeyOf(Head(trans))})

\* The transactions of a list under one short description, in input order.
RECURSIVE WithKey(_, _)
WithKey(trans, key) ==
    IF trans = <<>> THEN <<>>
    ELSE IF KeyOf(Head(trans)) = key THEN <<Head(trans)>> \o WithKey(Tail(trans), key)
    ELSE WithKey(Tail(trans), key)

Occurrences(seq, x) == Cardinality({i \in DOMAIN seq : seq[i] = x})

SameElements(a, b) ==
    /\ Len(a) = Len(b)
    /\ \A i \in DOMAIN a : Occurrences(a, a[i]) = Occurrences(b, a[i])

Ascending(dates) ==
    \A i, j \in DOMAIN dates : i < j => Ordinal(dates[i]) <= Ordinal(dates[j])

RECURSIVE SumOfSizes(_)
SumOfSizes(groups) ==
    IF groups = <<>> THEN 0 ELSE Len(Head(groups).amounts) + SumOfSizes(Tail(groups))

GroupsReturned == ret.done /\ call.fn = "_group_transactions"

\* C11: _group_transactions gives one group per distinct short-description
\* of the input, in order of first occurrence; every transaction adds one
\* amount, one date and one id to the group of its short-description (the
\* sizes sum to the number of inputs, the three sequences of a group are
\* equally long); amounts and transaction_ids keep input order, index by
\* index, and only the dates are sorted ascending.
C11_OneGroupPerShortDescription ==
    GroupsReturned =>
        LET trans == call.transactions
            groups == ret.value
            keys == FirstKeys(trans, {})
        IN  /\ Len(groups) = Len(keys)
            /\ SumOfSizes(groups) = Len(trans)
            /\ \A g \in DOMAIN groups :
                   LET mine == WithKey(trans, keys[g])
                   IN  /\ groups[g].short_description = keys[g]
                       /\ groups[g].amounts = [i \in DOMAIN mine |-> mine[i].amount]
                       /\ groups[g].transaction_ids =
                              [i \in DOMAIN mine |-> Get(mine[i], "id")]
                       /\ SameElements(groups[g].dates,
                                       [i \in DOMAIN mine |-> mine[i].date])
                       /\ Ascending(groups[g].dates)

\* Three transactions of two short descriptions, the first and the third in
\* one group whose dates arrived latest first: two groups, the dates of the
\* first reordered, its amounts not.
C11_Witness ==
    /\ GroupsReturned
    /\ Len(call.transactions) = 3
    /\ Len(ret.value) = 2
    /\ KeyOf(call.transactions[1]) = KeyOf(call.transactions[3])
    /\ KeyOf(call.transactions[1]) # KeyOf(call.transactions[2])
    /\ ret.value[1].dates = <<call.transactions[3].date, call.transactions[1].date>>
    /\ ret.value[1].dates[1] # ret.value[1].dates[2]
    /\ ret.value[1].amounts = <<call.transactions[1].amount, call.transactions[3].amount>>

\* C12: the frequency of a group is "1 time" when it has one date, and
\* otherwise "<n> times in <d> days", n being the number of its transactions
\* and d the days from its earliest to its latest date plus one, in whatever
\* order the transactions arrived.
C12_FrequencyText ==
    GroupsReturned =>
        LET trans == call.transactions
            keys == FirstKeys(trans, {})
        IN  \A g \in DOMAIN ret.value :
                LET mine == WithKey(trans, keys[g])
                    days == {Ordinal(mine[i].date) : i \in DOMAIN mine}
                    earliest == CHOOSE d \in days : \A x \in days : d <= x
                    latest == CHOOSE d \in days : \A x \in days : x <= d
                IN  ret.value[g].frequency =
                        (IF Len(mine) = 1 THEN Str(<<"1 time">>)
                         ELSE Str(<<ToString(Len(mine)), " times in ",
                                    ToString(latest - earliest + 1), " days">>))

\* The dates 2024-03-05 and then 2024-03-01 give "2 times in 5 days".
C12_Witness ==
    /\ GroupsReturned
    /\ Len(call.transactions) = 2
    /\ call.transactions[1].date = IsoDate(2024, 3, 5)
    /\ call.transactions[2].date = IsoDate(2024, 3, 1)
    /\ ret.value[1].frequency = Str(<<"2", " times in ", "5", " days">>)

\* The rearrangements of a list.
Rearrangements(seq) ==
    {[i \in DOMAIN seq |-> seq[p[i]]] : p \in Permutations(DOMAIN seq)}

GroupKeys(groups) == {groups[g].short_description : g \in DOMAIN groups}

\* Two group lists that differ in nothing but the order of the groups and
\* the order of the amounts and ids inside a group.
SameGroups(groups, other) ==
    /\ GroupKeys(groups) = GroupKeys(other)
    /\ \A g \in DOMAIN groups : \A h \in DOMAIN other :
           groups[g].short_description = other[h].short_description =>
               /\ groups[g].dates = other[h].dates
               /\ groups[g].frequency = other[h].frequency
               /\ SameElements(groups[g].amounts, other[h].amounts)
               /\ SameElements(groups[g].transaction_ids, other[h].transaction_ids)

\* C24: for any two input lists that are permutations of each other,
\* _group_transactions yields the same groups: the same set of
\* short-descriptions and, per short-description, the same sorted dates, the
\* same frequency text and the same multiset of amounts and of ids.
C24_PermutationGivesSameGroups ==
    GroupsReturned =>
        \A other \in Rearrangements(call.transactions) :
            SameGroups(ret.value, _group_transactions(other))

\* Three transactions of two short descriptions, the two of one group with
\* different dates, amounts and ids, and a rearrangement of them that gives
\* another list (the groups, and the amounts inside a group, in another
\* order).
C24_Witness ==
    /\ GroupsReturned
    /\ Len(call.transactions) = 3
    /\ Len(ret.value) = 2
    /\ \E g \in DOMAIN ret.value :
           /\ Len(ret.value[g].dates) = 2
           /\ ret.value[g].dates[1] # ret.value[g].dates[2]
           /\ ret.value[g].amounts[1] # ret.value[g].amounts[2]
    /\ \E other \in Rearrangements(call.transactions) :
           \E groups \in {_group_transactions(other)} :
               /\ groups[1].short_description # ret.value[1].short_description
               /\ \E g \in DOMAIN groups : \E h \in DOMAIN ret.value :
                      /\ groups[g].short_description = ret.value[h].short_description
                      /\ groups[g].amounts # ret.value[h].amounts

-----------------------------------------------------------------------------
(* Properties of the dictionary lookup *)

\* The scores of a key against the rows of the dictionary of the last call.
ScoresOf(description, dict_name) ==
    [i \in DOMAIN dictionaries[dict_name] |->
        token_sort_ratio(description, dictionaries[dict_name][i].short_description)]

\* The first row, in row order, whose score no other row exceeds.
FirstMaximum(scores) ==
    CHOOSE i \in DOMAIN scores :
        /\ \A j \in DOMAIN scores : scores[j] <= scores[i]
        /\ \A j \in DOMAIN scores : j < i => scores[j] < scores[i]

\* C13 as stated: for every key and every non-empty dictionary,
\* _find_best_match returns the category of the first entry, in row order,
\* that attains the maximum score over all entries, with that score as a
\* confidence in [0, 1]; for an empty dictionary it returns (None, 0.0).
C13_FirstMaximumOfAnyDictionary ==
    ret.done =>
        LET rows == dictionaries[call.dict_name]
            scores == ScoresOf(call.description, call.dict_name)
        IN  IF rows = <<>>
            THEN ret.value = <<PyNone, PyInt(0)>>
            ELSE /\ ret.value[1] = Str(rows[FirstMaximum(scores)].category)
                 /\ ret.value[2] = Frac(scores[FirstMaximum(scores)], 100)
                 /\ InUnitInterval(ret.value[2])

\* C13 amended: when some entry scores above zero, _find_best_match returns
\* the category of the first entry, in row order, that attains the maximum
\* score, with that score as a confidence in (0, 1]; when the dictionary is
\* empty or every entry scores zero it returns (None, 0.0).
C13_FirstPositiveMaximum ==
    ret.done =>
        LET rows == dictionaries[call.dict_name]
            scores == ScoresOf(call.description, call.dict_name)
        IN  IF rows = <<>> \/ \A i \in DOMAIN scores : scores[i] = 0
            THEN ret.value = <<PyNone, PyInt(0)>>
            ELSE /\ ret.value[1] = Str(rows[FirstMaximum(scores)].category)
                 /\ ret.value[2] = Frac(scores[FirstMaximum(scores)], 100)
                 /\ InUnitInterval(ret.value[2])
                 /\ ret.value[2] # PyInt(0)

\* "rent acme" scores 100 against the first and the third general row and
\* gets the category of the first, on a matcher whose empty industry
\* dictionary gave (None, 0.0) before and whose general rows all scored
\* zero for another key.
C13_Witness ==
    /\ ret.done
    /\ call = [description |-> RentAcme, dict_name |-> "general"]
    /\ ScoresOf(RentAcme, "general")[1] = 100
    /\ ScoresOf(RentAcme, "general")[3] = 100
    /\ ret.value = <<Str(ExpensesRent), PyInt(1)>>
    /\ Len(match_log) = 3
    /\ match_log[1].dict_name = "industry"
    /\ dictionaries["industry"] = <<>>
    /\ match_log[1].result = <<PyNone, PyInt(0)>>
    /\ match_log[2].dict_name = "general"
    /\ match_log[2].description = SevenSeven
    /\ match_log[2].result = <<PyNone, PyInt(0)>>

\* C14: over any sequence of _find_best_match calls on one matcher the
\* cache is append-only and consistent: an entry written for a key and a
\* dictionary is never changed or removed; a later call with the same key
\* and dictionary returns the cached result without scoring the rows again;
\* and that result is the one the first call returned.
C14_CacheAppendOnly ==
    /\ [][ \A cache_key \in DOMAIN match_cache :
               /\ cache_key \in DOMAIN match_cache'
               /\ match_cache'[cache_key] = match_cache[cache_key] ]_vars
    /\ [][ \A cache_key \in DOMAIN match_cache :
               (/\ match_log' # match_log
                /\ CacheKey(call'.description, call'.dict_name) = cache_key)
               => /\ fm_scored' = {}
                  /\ ret'.value[1] = match_cache[cache_key].category
                  /\ ret'.value[2] = match_cache[cache_key].confidence ]_vars
    /\ [] \A i, j \in DOMAIN match_log :
              (/\ i < j
               /\ match_log[i].description = match_log[j].description
               /\ match_log[i].dict_name = match_log[j].dict_name)
              => /\ match_log[j].result = match_log[i].result
                 /\ ~match_log[j].scored

\* The third call repeats the first after a call for another key: it is
\* answered from the cache with the first call's result.
C14_Witness ==
    /\ Len(match_log) = 3
    /\ match_log[1].description = match_log[3].description
    /\ match_log[1].dict_name = match_log[3].dict_name
    /\ match_log[2].description # match_log[1].description
    /\ match_log[1].scored
    /\ ~match_log[3].scored
    /\ fm_scored = {}
    /\ match_log[3].result = match_log[1].result
    /\ match_log[1].result[1] # PyNone
    /\ Cardinality(DOMAIN match_cache) = 2

-----------------------------------------------------------------------------
(* Properties of the normalizer *)

\* C15: for every description d, _create_short_description(d) has at most
\* 20 characters, all of them lowercase letters, digits, blanks or '&',
\* with no two blanks in a row and no blank at either end.
C15_ShortDescriptionShape ==
    ret.done =>
        LET short == ret.value
        IN  /\ Len(short) <= 20
            /\ \A i \in DOMAIN short :
                   short[i] \in Range(LowerLetters) \cup Digits \cup {" ", "&"}
            /\ \A i \in DOMAIN short :
                   (i < Len(short) /\ short[i] = " ") => short[i + 1] # " "
            /\ short # <<>> => (short[1] # " " /\ short[Len(short)] # " ")

\* A line of 28 characters with a double blank, capitals and an '&' comes
\* out as its first 19 characters, lowercased, the blanks single.
C15_Witness ==
    /\ ret.done
    /\ call.description = GoldenStateWaters
    /\ Len(call.description) = 28
    /\ ret.value = <<"g", "o", "l", "d", "e", "n", " ", "s", "t", "a", "t", "e",
                     " ", "w", "a", "t", "e", "r", "s">>

\* The text that remains after the cut before a special character (the
\* steps up to line 103).
AfterSpecialCut(description) ==
    LET lowered == Strip(ToLower(description))
        no_domain == BeforeDomain(lowered)
        no_dates == RemoveDates(no_domain)
        no_prefix == RemoveLeadingNumber(no_dates)
        parts == Split(no_prefix)
        joined == Join(ProcessedParts(parts))
        no_special == BeforeSpecial(joined)
    IN  LastOf(<<lowered, no_domain, no_dates, no_prefix, parts, joined, no_special>>)

\* The steps after the removal of a trailing number (lines 109-112).
Finish(s) == Strip(Truncate(Join(Split(s))))

EndsInDigit(s) == s # <<>> /\ s[Len(s)] \in Digits

\* Where the run of digits that ends s begins.
TrailingRunStart(s) ==
    First({k \in DOMAIN s : \A x \in k..Len(s) : s[x] \in Digits})

BeforeTrailingRun(s) == SubSeq(s, 1, TrailingRunStart(s) - 1)

\* C25 as stated: whenever the text that remains after the cut before a
\* special character ends in one or more digits, that run of digits is
\* removed before the cut at 20 characters, whether or not whitespace
\* precedes it.
C25_TrailingDigitsRemoved ==
    ret.done =>
        \E rest \in {AfterSpecialCut(call.description)} :
            EndsInDigit(rest) => ret.value = Finish(BeforeTrailingRun(rest))

\* C25, amended: a run of digits that ends that text is removed, with the
\* whitespace before it, only when whitespace precedes it; a run that is
\* the whole text or follows a letter, a digit's word or "&" directly stays.
C25_StandaloneTrailingNumberRemoved ==
    ret.done =>
        \E rest \in {AfterSpecialCut(call.description)} :
            EndsInDigit(rest) =>
                \E k \in {TrailingRunStart(rest)} :
                    IF k > 1 /\ rest[k - 1] \in Whitespace
                    THEN ret.value = Finish(BeforeTrailingRun(rest))
                    ELSE ret.value = Finish(rest)

\* "b 7" loses its number: what remains is "b".
C25_Witness ==
    /\ ret.done
    /\ call.description = <<"b", " ", "7">>
    /\ AfterSpecialCut(call.description) = <<"b", " ", "7">>
    /\ ret.value = <<"b">>

\* C30: normalization is idempotent: the short description of a short
\* description is that short description, for every description.
C30_NormalizationIdempotent ==
    ret.done => _create_short_description(ret.value) = ret.value

-----------------------------------------------------------------------------
(* Properties of the orchestrator *)

Loaded == run_pc # "start"

\* C17: without an industry dictionary file every component that loads the
\* dictionaries starts with an empty industry dictionary instead of
\* failing or being disabled: the vocabulary loader returns, the
\* orchestrator has an AI categorizer whenever the key is set, every
\* processed transaction carries the industry result ("N/A", 0.0), and the
\* AI stage still runs for the transactions left unresolved.
C17_IndustryDictionaryOptional ==
    (~industry_exists /\ Loaded) =>
        /\ dictionaries["industry"] = <<>>
        /\ _load_valid_categories.status = "ok"
        /\ api_key => ai_categorizer = "ready"
        /\ \A i \in DOMAIN processed :
               /\ processed[i]["industry-dictionary-category"] = Str(NA)
               /\ IndustryConfidence(processed[i]) = PyInt(0)
        /\ (run_pc \in {"merged", "emitted"} /\ api_key /\
            transactions_for_ai # <<>>) => ai_calls # <<>>

Raised == Str(<<"raised">>)

\* The categories that mark a transaction as uncategorized.
UncategorizedMarkers == {PyNone, Str(NA), Str(Uncategorized)}

\* The AI stage raised, or returned without a category for any row.
AiGaveNothing ==
    \/ ai_results = Raised
    \/ /\ IsList(ai_results)
       /\ \A r \in DOMAIN ai_results.list :
              ai_results.list[r].llm_category = PyNone

UnresolvedRows ==
    LET unresolved == SelectSeq(all_transactions, BothBelow)
    IN  [i \in DOMAIN unresolved |->
            [date |-> Strftime(unresolved[i].date),
             description |-> unresolved[i].description,
             amount |-> unresolved[i].amount]]

\* The fields of the input row in a row handed to the AI stage.
InputFields(rows) ==
    [i \in DOMAIN rows |->
        [date |-> rows[i].date, description |-> rows[i].description,
         amount |-> rows[i].amount]]

\* C19: in one run process_transactions is invoked at most once, only
\* after every transaction went through the dictionary cascade, with
\* exactly the transactions whose industry and general confidences are
\* both below the threshold, in input order; a transaction a dictionary
\* resolved is never sent, and without an unresolved transaction the AI
\* stage is not invoked.
C19_AiStageOnceWithUnresolved ==
    /\ [] (Len(ai_calls) <= 1)
    /\ [][ ai_calls' # ai_calls =>
               /\ run_pc = "cascade"
               /\ Len(processed) = Len(all_transactions)
               /\ \A i \in DOMAIN processed :
                      "industry-dictionary-category-confidence-level" \in
                          DOMAIN processed[i]
               /\ Len(ai_calls') = Len(ai_calls) + 1
               /\ UnresolvedRows # <<>>
               /\ InputFields(ai_calls'[Len(ai_calls')]) = UnresolvedRows
               /\ \A i \in DOMAIN ai_calls'[Len(ai_calls')] :
                      LET sent_row == ai_calls'[Len(ai_calls')][i]
                      IN  /\ RatLess(IndustryConfidence(sent_row), threshold)
                          /\ RatLess(GeneralConfidence(sent_row), threshold) ]_vars
    /\ [][ \A c \in DOMAIN ai_calls :
               c \in DOMAIN ai_calls' /\ ai_calls'[c] = ai_calls[c] ]_vars

\* A run of three rows, the second resolved by a dictionary: the AI stage
\* was invoked once, with the first and the third.
C19_Witness ==
    /\ run_pc = "emitted"
    /\ Len(all_transactions) = 3
    /\ Len(ai_calls) = 1
    /\ Len(ai_calls[1]) = 2
    /\ ~BothBelow(all_transactions[2])
    /\ ai_calls[1][1].description = all_transactions[1].description
    /\ ai_calls[1][2].description = all_transactions[3].description
    /\ ai_calls[1][1].description # ai_calls[1][2].description

\* C20: when process_transaction fails for one record in the dictionary
\* stage and hands it back without the categorization fields, the run is
\* not aborted: the other transactions are still processed and the
\* categorized output is still produced.
C20_FailedRecordDoesNotAbort ==
    fm_status = "caught" =>
        /\ run_pc # "aborted"
        /\ run_pc = "emitted" => excel_df # PyNone

\* The categories the AI stage returned under the short description of a row.
AiCategoriesFor(row) ==
    IF IsList(ai_results)
    THEN {ai_results.list[r].llm_category :
             r \in {q \in DOMAIN ai_results.list :
                       ai_results.list[q]["short-description"] =
                           row["short-description"]}}
    ELSE {}

\* C22: the category emitted for a transaction is the one of the first
\* stage that resolved it: the industry category when the industry
\* confidence reaches the threshold, otherwise the general category when
\* the general confidence reaches it, otherwise the llm_category the AI
\* stage returned under the row's short description ("Uncategorized"
\* when no AI result was merged); a dictionary category whose confidence
\* is below the threshold is not what is emitted.
C22_FirstResolvingStageWins ==
    run_pc = "emitted" =>
        \A i \in DOMAIN excel_df.list :
            \E row \in {processed[i]}, emitted \in {excel_df.list[i].Category} :
                IF RatLeq(threshold, IndustryConfidence(row))
                THEN emitted = row["industry-dictionary-category"]
                ELSE IF RatLeq(threshold, GeneralConfidence(row))
                THEN emitted = row["general-dictionary-category"]
                ELSE IF AiCategoriesFor(row) # {}
                THEN AiCategoriesFor(row) = {emitted}
                ELSE emitted = Str(Uncategorized)

\* An output with one row resolved by each stage, the third with a general
\* category below the threshold that is not the one emitted.
C22_Witness ==
    /\ run_pc = "emitted"
    /\ \E i, j, k \in DOMAIN excel_df.list :
          /\ RatLeq(threshold, IndustryConfidence(processed[i]))
          /\ excel_df.list[i].Category = Str(CogsFoodBulk)
          /\ RatLess(IndustryConfidence(processed[j]), threshold)
          /\ RatLeq(threshold, GeneralConfidence(processed[j]))
          /\ excel_df.list[j].Category = Str(ExpensesRent)
          /\ RatLess(IndustryConfidence(processed[k]), threshold)
          /\ RatLess(GeneralConfidence(processed[k]), threshold)
          /\ processed[k]["general-dictionary-category"] # Str(NA)
          /\ excel_df.list[k].Category = Str(RevenueServices)
          /\ excel_df.list[k].Category # processed[k]["general-dictionary-category"]

DictionaryFields ==
    {"short-description", "industry-dictionary-category",
     "industry-dictionary-category-confidence-level",
     "general-dictionary-category",
     "general-dictionary-category-confidence-level"}

SameDictionaryFields(a, b) == \A f \in DictionaryFields : a[f] = b[f]

\* Neither dictionary resolved the row.
Unresolved(row) ==
    /\ RatLess(IndustryConfidence(row), threshold)
    /\ RatLess(GeneralConfidence(row), threshold)

\* C27: within one run, two transactions with the same short description
\* get the same industry and general categories and confidences from
\* process_transaction, whatever the order of the rows and whatever the
\* cache held when each was processed (the row just processed carries what
\* a lookup with an empty cache gives it), so they resolve at the same
\* stage; and the
\* orchestrator attaches an AI result only to rows that both dictionaries
\* left unresolved.
C27_SameShortDescriptionSameStage ==
    /\ (run_pc = "cascade" /\ processed # <<>>) =>
           \E fresh \in {process_transaction(<<>>, all_transactions[Len(processed)],
                                              threshold)} :
               SameDictionaryFields(processed[Len(processed)], fresh.value)
    /\ \A i, j \in DOMAIN processed :
           processed[i]["short-description"] = processed[j]["short-description"] =>
               /\ SameDictionaryFields(processed[i], processed[j])
               /\ Unresolved(processed[i]) <=> Unresolved(processed[j])
    /\ \A i \in DOMAIN processed :
           "llm_category" \in DOMAIN processed[i] =>
               /\ Unresolved(processed[i])
               /\ \E t \in DOMAIN transactions_for_ai :
                      transactions_for_ai[t]["short-description"] =
                          processed[i]["short-description"]

\* Three rows, the first and the third of one short description and left
\* unresolved, the second resolved by a dictionary between them: after the
\* merge the first and the third carry the same AI category, the second
\* none.
C27_Witness ==
    /\ run_pc = "merged"
    /\ Len(processed) = 3
    /\ processed[1]["short-description"] = processed[3]["short-description"]
    /\ processed[1]["short-description"] # processed[2]["short-description"]
    /\ Unresolved(processed[1])
    /\ ~Unresolved(processed[2])
    /\ "llm_category" \in DOMAIN processed[1]
    /\ "llm_category" \in DOMAIN processed[3]
    /\ "llm_category" \notin DOMAIN processed[2]
    /\ processed[1].llm_category # PyNone
    /\ processed[1].llm_category = processed[3].llm_category

====
